---- MODULE Spec2Model ----
(***************************************************************************)
(* Serial Data Protocol, Rust wire-format core.                            *)
(*                                                                         *)
(*   rust/sdp/src/wire_slice.rs   slice API: encode_T / decode_T on a      *)
(*                                caller-owned buffer at an explicit offset *)
(*   rust/sdp/src/wire.rs         streaming API: Encoder<W> / Decoder<R>   *)
(*   testdata/generated/rustexp/audiounit/src/wire_slice.rs                *)
(*                                generated copy whose decode_string       *)
(*                                validates before it copies, and the      *)
(*                                fast-path array decoders                 *)
(*   generated record code        encoded_size, encode_to_slice,           *)
(*                                decode_from_slice, encode, decode, and   *)
(*                                the message-mode envelope, as the tests  *)
(*                                and benchmarks call them                 *)
(*                                                                         *)
(* Numbers wider than 16 bits are sequences of 16-bit limbs, least         *)
(* significant limb first (u32: 2 limbs, u64 and usize: 4 limbs), so that  *)
(* 0xFFFFFFFF, usize::MAX and their sums are computed exactly.             *)
(***************************************************************************)
EXTENDS Integers, Sequences, FiniteSets, TLC

VARIABLES
    api,              \* what this run drives: "slice", "stream", "record", "fast"
                      \* or "message"
    overflow_checks,  \* build profile: TRUE = debug (overflow panics), FALSE = release (wraps)
    buf,              \* the caller's buffer after the last call on a slice
    call,             \* the last call on a slice, its arguments and its result
    sink,             \* Encoder.writer: the bytes written so far (a Vec<u8>)
    log,              \* the values handed to Encoder::write_*, in call order
    reader,           \* Decoder.reader: [data, pos], or NoReader before Decoder::new
    rres,             \* the last Decoder::read_* call and its result
    rec,              \* generated code: the record the caller holds, [T, v]
    target_endian,    \* build target: "little" or "big" (cfg!(target_endian))
    fast,             \* fast path: the slice handed to an array decoder, its
                      \* address, the count, and the call made on it
    large,            \* a long string or byte array, the buffer or sink it
                      \* goes to, and the calls made on it
    helper            \* the cross-language helper: the command run last, the
                      \* file it read or wrote, and its exit status

vars ==
    <<api, overflow_checks, buf, call, sink, log, reader, rres, rec, target_endian,
      fast, large, helper>>

(***************************************************************************)
(* Bounds of the model.                                                    *)
(***************************************************************************)
MaxBufLen == 9      \* longest buffer handed to an encoder
MaxOffset == 2      \* small offsets are 0..MaxOffset
MaxWrites == 2      \* longest sequence of Encoder::write_* calls

(***************************************************************************)
(* Fixed-width unsigned arithmetic on limbs.                               *)
(***************************************************************************)
LimbBase == 256 * 256

WOfNat(n, k) ==
    [i \in 1..k |-> IF i = 1 THEN n % LimbBase
                    ELSE IF i = 2 THEN n \div LimbBase ELSE 0]

RECURSIVE WCarry(_, _, _)
WCarry(a, b, i) ==
    IF i = 0 THEN 0 ELSE (a[i] + b[i] + WCarry(a, b, i - 1)) \div LimbBase

\* a + b modulo 2^(16 * Len(a))
WAdd(a, b) == [i \in 1..Len(a) |-> (a[i] + b[i] + WCarry(a, b, i - 1)) % LimbBase]

\* whether a + b does not fit the width
WOverflows(a, b) == WCarry(a, b, Len(a)) = 1

WLt(a, b) ==
    \E i \in 1..Len(a) : a[i] < b[i] /\ \A j \in (i + 1)..Len(a) : a[j] = b[j]

WLe(a, b) == a = b \/ WLt(a, b)

\* zero-extension / truncation to k limbs (u32 as usize, usize as u32)
WResize(a, k) == [i \in 1..k |-> IF i <= Len(a) THEN a[i] ELSE 0]

\* the value as a natural number, for values below 2^31
WFitsNat(a) == a[2] < 32768 /\ \A i \in 3..Len(a) : a[i] = 0
WToNat(a) == a[1] + LimbBase * a[2]

\* usize: the 64-bit machine word of offsets and lengths
usize_MAX == [i \in 1..4 |-> LimbBase - 1]
usize(n) == WOfNat(n, 4)
u32(n) == WOfNat(n, 2)
u32_MAX == <<LimbBase - 1, LimbBase - 1>>
u64_MAX == usize_MAX

(***************************************************************************)
(* Values and their bit patterns.                                          *)
(*   u8, u16, i8, i16, i32 : integers                                      *)
(*   u32 : 2 limbs      u64 : 4 limbs                                      *)
(*   i64 : [hi |-> signed high 32 bits, lo |-> unsigned low 32 bits]       *)
(*   f32, f64 : [bits |-> the IEEE-754 bit pattern as u32 / u64]           *)
(*   str, bytes : the sequence of payload bytes (a str is valid UTF-8)     *)
(***************************************************************************)
Byte == 0..255

i8_as_u8(v) == v % 256
u8_as_i8(x) == IF x >= 128 THEN x - 256 ELSE x
i16_as_u16(v) == v % LimbBase
u16_as_i16(x) == IF x >= 32768 THEN x - LimbBase ELSE x
i32_as_u32(v) == <<v % LimbBase, (v \div LimbBase) % LimbBase>>
u32_as_i32(x) ==
    IF x[2] >= 32768 THEN (x[2] - LimbBase) * LimbBase + x[1]
    ELSE x[2] * LimbBase + x[1]
i64_as_u64(v) == v.lo \o i32_as_u32(v.hi)
u64_as_i64(x) == [hi |-> u32_as_i32(SubSeq(x, 3, 4)), lo |-> SubSeq(x, 1, 2)]
f32_to_bits(v) == v.bits
f32_from_bits(x) == [bits |-> x]
f64_to_bits(v) == v.bits
f64_from_bits(x) == [bits |-> x]

\* byteorder::LittleEndian: n.to_le_bytes() / uN::from_le_bytes(..)
u16_to_le_bytes(n) == <<n % 256, n \div 256>>
u16_from_le_bytes(b) == b[1] + 256 * b[2]

RECURSIVE W_to_le_bytes(_)
W_to_le_bytes(n) ==
    IF n = <<>> THEN <<>> ELSE u16_to_le_bytes(Head(n)) \o W_to_le_bytes(Tail(n))

W_from_le_bytes(b) ==
    [i \in 1..(Len(b) \div 2) |-> u16_from_le_bytes(SubSeq(b, 2 * i - 1, 2 * i))]

\* core::str::from_utf8 / String::from_utf8: whether the bytes are well-formed UTF-8
RECURSIVE utf8_valid(_)
utf8_valid(s) ==
    IF s = <<>> THEN TRUE
    ELSE LET n == Len(s)
             b == s[1]
             cont(i) == i <= n /\ s[i] \in 128..191
             rest(k) == utf8_valid(SubSeq(s, k + 1, n))
         IN  IF b < 128 THEN rest(1)
             ELSE IF b \in 194..223 THEN cont(2) /\ rest(2)
             ELSE IF b = 224 THEN n >= 2 /\ s[2] \in 160..191 /\ cont(3) /\ rest(3)
             ELSE IF b \in (225..236) \cup {238, 239} THEN cont(2) /\ cont(3) /\ rest(3)
             ELSE IF b = 237 THEN n >= 2 /\ s[2] \in 128..159 /\ cont(3) /\ rest(3)
             ELSE IF b = 240
                  THEN n >= 2 /\ s[2] \in 144..191 /\ cont(3) /\ cont(4) /\ rest(4)
             ELSE IF b \in 241..243 THEN cont(2) /\ cont(3) /\ cont(4) /\ rest(4)
             ELSE IF b = 244
                  THEN n >= 2 /\ s[2] \in 128..143 /\ cont(3) /\ cont(4) /\ rest(4)
             ELSE FALSE

(***************************************************************************)
(* Results.  Err values of wire_slice::Error and wire::Error; a panic is   *)
(* not a value of either and is kept apart as Panic.                       *)
(***************************************************************************)
Unit == "()"
Ok(v) == [tag |-> "Ok", val |-> v]
BufferTooSmall(needed, available) ==
    [tag |-> "BufferTooSmall", needed |-> needed, available |-> available]
InvalidUtf8 == [tag |-> "InvalidUtf8"]
ArrayTooLarge(size, max) == [tag |-> "ArrayTooLarge", size |-> size, max |-> max]
InvalidBool(v) == [tag |-> "InvalidBool", val |-> v]
Io(kind) == [tag |-> "Io", kind |-> kind]
Panic(why) == [tag |-> "Panic", why |-> why]

ErrTags == {"BufferTooSmall", "InvalidUtf8", "ArrayTooLarge", "InvalidBool", "Io"}
IsOk(r) == r.tag = "Ok"
IsErr(r) == r.tag \in ErrTags
IsPanic(r) == r.tag = "Panic"

\* `a + n` on usize: panics on overflow when the build checks overflow, wraps otherwise
AddOverflows(a, n) == WOverflows(a, usize(n))
AddPanics(a, n) == overflow_checks /\ AddOverflows(a, n)
Add(a, n) == WAdd(a, usize(n))
OverflowPanic == Panic("attempt to add with overflow")
IndexPanic == Panic("slice index out of range")

\* mutant: the write also clears what follows it
Splice_clearing(b, at, bytes) ==
    [i \in 1..Len(b) |->
        IF i > at /\ i <= at + Len(bytes) THEN bytes[i - at]
        ELSE IF i > at THEN 0 ELSE b[i]]

\* buf with bytes written at the 0-based index at
Splice(b, at, bytes) ==
    [i \in 1..Len(b) |->
        IF i > at /\ i <= at + Len(bytes) THEN bytes[i - at] ELSE b[i]]

(***************************************************************************)
(* wire_slice.rs: encoders.  Each returns [res, buf]: the result and the   *)
(* buffer as the call leaves it.                                           *)
(***************************************************************************)
Gt(a, n) == WLt(usize(n), a)      \* a > n, a: usize, n: a buffer length
Ge(a, n) == WLe(usize(n), a)      \* a >= n

\* LittleEndian::write_uN(&mut buf[offset..], n): buf[offset..] panics when
\* offset > buf.len(), and the write when fewer than size_of(uN) bytes remain
LittleEndian_write(b, offset, bytes) ==
    IF Gt(offset, Len(b)) THEN [res |-> IndexPanic, buf |-> b]
    ELSE IF Len(b) - WToNat(offset) < Len(bytes) THEN [res |-> IndexPanic, buf |-> b]
    ELSE [res |-> Ok(Unit), buf |-> Splice(b, WToNat(offset), bytes)]

encode_bool_all_ones(b, offset, value) ==
    IF Ge(offset, Len(b))
    THEN IF AddPanics(offset, 1) THEN [res |-> OverflowPanic, buf |-> b]
         ELSE [res |-> BufferTooSmall(Add(offset, 1), Len(b)), buf |-> b]
    ELSE [res |-> Ok(Unit),
          buf |-> Splice(b, WToNat(offset), <<IF value THEN 255 ELSE 0>>)]

encode_bool(b, offset, value) ==
    IF Ge(offset, Len(b))
    THEN IF AddPanics(offset, 1) THEN [res |-> OverflowPanic, buf |-> b]
         ELSE [res |-> BufferTooSmall(Add(offset, 1), Len(b)), buf |-> b]
    ELSE [res |-> Ok(Unit),
          buf |-> Splice(b, WToNat(offset), <<IF value THEN 1 ELSE 0>>)]

encode_u8(b, offset, value) ==
    IF Ge(offset, Len(b))
    THEN IF AddPanics(offset, 1) THEN [res |-> OverflowPanic, buf |-> b]
         ELSE [res |-> BufferTooSmall(Add(offset, 1), Len(b)), buf |-> b]
    ELSE [res |-> Ok(Unit), buf |-> Splice(b, WToNat(offset), <<value>>)]

encode_u16(b, offset, value) ==
    IF AddPanics(offset, 2) THEN [res |-> OverflowPanic, buf |-> b]
    ELSE IF Gt(Add(offset, 2), Len(b))
         THEN [res |-> BufferTooSmall(Add(offset, 2), Len(b)), buf |-> b]
    ELSE LittleEndian_write(b, offset, u16_to_le_bytes(value))

\* mutant: the bytes in network (big-endian) order
encode_u32_big_endian(b, offset, value) ==
    IF AddPanics(offset, 4) THEN [res |-> OverflowPanic, buf |-> b]
    ELSE IF Gt(Add(offset, 4), Len(b))
         THEN [res |-> BufferTooSmall(Add(offset, 4), Len(b)), buf |-> b]
    ELSE LittleEndian_write(b, offset,
            [i \in 1..4 |-> W_to_le_bytes(value)[5 - i]])

encode_u32(b, offset, value) ==
    IF AddPanics(offset, 4) THEN [res |-> OverflowPanic, buf |-> b]
    ELSE IF Gt(Add(offset, 4), Len(b))
         THEN [res |-> BufferTooSmall(Add(offset, 4), Len(b)), buf |-> b]
    ELSE LittleEndian_write(b, offset, W_to_le_bytes(value))

encode_u64(b, offset, value) ==
    IF AddPanics(offset, 8) THEN [res |-> OverflowPanic, buf |-> b]
    ELSE IF Gt(Add(offset, 8), Len(b))
         THEN [res |-> BufferTooSmall(Add(offset, 8), Len(b)), buf |-> b]
    ELSE LittleEndian_write(b, offset, W_to_le_bytes(value))

encode_i8(b, offset, value) == encode_u8(b, offset, i8_as_u8(value))
encode_i16(b, offset, value) == encode_u16(b, offset, i16_as_u16(value))
encode_i32(b, offset, value) == encode_u32(b, offset, i32_as_u32(value))
encode_i64(b, offset, value) == encode_u64(b, offset, i64_as_u64(value))
encode_f32(b, offset, value) == encode_u32(b, offset, f32_to_bits(value))
encode_f64(b, offset, value) == encode_u64(b, offset, f64_to_bits(value))

\* buf[offset + 4..offset + 4 + n].copy_from_slice(bytes), after the prefix is written
copy_payload(b, offset, bytes) ==
    LET n == Len(bytes)
        start == Add(offset, 4)
        end == Add(start, n)
    IN  IF AddPanics(offset, 4) \/ AddPanics(start, n)
        THEN [res |-> OverflowPanic, buf |-> b]
        ELSE IF WLt(end, start) \/ Gt(end, Len(b))
             THEN [res |-> IndexPanic, buf |-> b]
        ELSE [res |-> Ok(4 + n), buf |-> Splice(b, WToNat(start), bytes)]

\* mutant: only the prefix is checked before it is written, the payload after
encode_string_prefix_first(b, offset, value) ==
    LET w == encode_u32(b, offset, WResize(usize(Len(value)), 2))
        total == 4 + Len(value)
    IN  IF ~IsOk(w.res) THEN w
        ELSE IF Gt(Add(offset, total), Len(b))
             THEN [res |-> BufferTooSmall(Add(offset, total), Len(b)), buf |-> w.buf]
        ELSE copy_payload(w.buf, offset, value)

\* mutant: the prefix holds the total size, not the payload's
encode_string_total_prefix(b, offset, value) ==
    LET total == 4 + Len(value)
    IN  IF AddPanics(offset, total) THEN [res |-> OverflowPanic, buf |-> b]
        ELSE IF Gt(Add(offset, total), Len(b))
             THEN [res |-> BufferTooSmall(Add(offset, total), Len(b)), buf |-> b]
        ELSE LET w == encode_u32(b, offset, u32(total))
             IN  IF ~IsOk(w.res) THEN w
                 ELSE copy_payload(w.buf, offset, value)

encode_string(b, offset, value) ==
    LET bytes == value                            \* value.as_bytes()
        len == WResize(usize(Len(bytes)), 2)      \* bytes.len() as u32
        total == 4 + Len(bytes)
    IN  IF AddPanics(offset, total) THEN [res |-> OverflowPanic, buf |-> b]
        ELSE IF Gt(Add(offset, total), Len(b))
             THEN [res |-> BufferTooSmall(Add(offset, total), Len(b)), buf |-> b]
        ELSE LET w == encode_u32(b, offset, len)
             IN  IF ~IsOk(w.res) THEN w
                 ELSE copy_payload(w.buf, offset, bytes)

encode_bytes(b, offset, value) ==
    LET len == WResize(usize(Len(value)), 2)      \* value.len() as u32
        total == 4 + Len(value)
    IN  IF AddPanics(offset, total) THEN [res |-> OverflowPanic, buf |-> b]
        ELSE IF Gt(Add(offset, total), Len(b))
             THEN [res |-> BufferTooSmall(Add(offset, total), Len(b)), buf |-> b]
        ELSE LET w == encode_u32(b, offset, len)
             IN  IF ~IsOk(w.res) THEN w
                 ELSE copy_payload(w.buf, offset, value)

(***************************************************************************)
(* wire_slice.rs: decoders.  Each returns [res, alloc, reads]: the result, *)
(* the number of payload bytes copied into an owned allocation, and the    *)
(* set of 0-based buffer indices the call read.                            *)
(***************************************************************************)
MAX_ARRAY_SIZE == 10000000

\* the same constant in the generated rustexp copy of wire_slice.rs and in the
\* copy of the audiounit test crate (whose decoders are those of the core crate)
MAX_ARRAY_SIZE_rustexp == 10000000
MAX_ARRAY_SIZE_audiounit == 10000000

Range(offset, n) == {WToNat(offset) + i : i \in 0..(n - 1)}
Bytes(b, at, n) == SubSeq(b, at + 1, at + n)
Fail(r) == [res |-> r, alloc |-> 0, reads |-> {}]

\* LittleEndian::read_uN(&buf[offset..]): Ok(the n bytes read), or the panic
LittleEndian_read(b, offset, n) ==
    IF Gt(offset, Len(b)) THEN Fail(IndexPanic)
    ELSE IF Len(b) - WToNat(offset) < n THEN Fail(IndexPanic)
    ELSE [res |-> Ok(Bytes(b, WToNat(offset), n)), alloc |-> 0,
          reads |-> Range(offset, n)]

decode_bool_nonzero(b, offset) ==
    IF Ge(offset, Len(b))
    THEN IF AddPanics(offset, 1) THEN Fail(OverflowPanic)
         ELSE Fail(BufferTooSmall(Add(offset, 1), Len(b)))
    ELSE [res |-> Ok(b[WToNat(offset) + 1] # 0), alloc |-> 0, reads |-> Range(offset, 1)]

decode_bool(b, offset) ==
    IF Ge(offset, Len(b))
    THEN IF AddPanics(offset, 1) THEN Fail(OverflowPanic)
         ELSE Fail(BufferTooSmall(Add(offset, 1), Len(b)))
    ELSE LET v == b[WToNat(offset) + 1]
         IN  [res |-> IF v = 0 THEN Ok(FALSE) ELSE IF v = 1 THEN Ok(TRUE)
                      ELSE InvalidBool(v),
              alloc |-> 0, reads |-> Range(offset, 1)]

decode_u8(b, offset) ==
    IF Ge(offset, Len(b))
    THEN IF AddPanics(offset, 1) THEN Fail(OverflowPanic)
         ELSE Fail(BufferTooSmall(Add(offset, 1), Len(b)))
    ELSE [res |-> Ok(b[WToNat(offset) + 1]), alloc |-> 0, reads |-> Range(offset, 1)]

decode_u16(b, offset) ==
    IF AddPanics(offset, 2) THEN Fail(OverflowPanic)
    ELSE IF Gt(Add(offset, 2), Len(b))
         THEN Fail(BufferTooSmall(Add(offset, 2), Len(b)))
    ELSE LET r == LittleEndian_read(b, offset, 2)
         IN  IF IsOk(r.res) THEN [r EXCEPT !.res = Ok(u16_from_le_bytes(r.res.val))]
             ELSE r

decode_u32_big_endian(b, offset) ==
    IF AddPanics(offset, 4) THEN Fail(OverflowPanic)
    ELSE IF Gt(Add(offset, 4), Len(b))
         THEN Fail(BufferTooSmall(Add(offset, 4), Len(b)))
    ELSE LET r == LittleEndian_read(b, offset, 4)
         IN  IF IsOk(r.res) THEN [r EXCEPT !.res = Ok(W_from_le_bytes([i \in 1..4 |-> r.res.val[5 - i]]))]
             ELSE r

decode_u32(b, offset) ==
    IF AddPanics(offset, 4) THEN Fail(OverflowPanic)
    ELSE IF Gt(Add(offset, 4), Len(b))
         THEN Fail(BufferTooSmall(Add(offset, 4), Len(b)))
    ELSE LET r == LittleEndian_read(b, offset, 4)
         IN  IF IsOk(r.res) THEN [r EXCEPT !.res = Ok(W_from_le_bytes(r.res.val))]
             ELSE r

decode_u64(b, offset) ==
    IF AddPanics(offset, 8) THEN Fail(OverflowPanic)
    ELSE IF Gt(Add(offset, 8), Len(b))
         THEN Fail(BufferTooSmall(Add(offset, 8), Len(b)))
    ELSE LET r == LittleEndian_read(b, offset, 8)
         IN  IF IsOk(r.res) THEN [r EXCEPT !.res = Ok(W_from_le_bytes(r.res.val))]
             ELSE r

decode_i8(b, offset) ==
    LET r == decode_u8(b, offset)
    IN  IF IsOk(r.res) THEN [r EXCEPT !.res = Ok(u8_as_i8(r.res.val))] ELSE r

\* mutant: the sign cast is forgotten
decode_i16_unsigned(b, offset) == decode_u16(b, offset)

decode_i16(b, offset) ==
    LET r == decode_u16(b, offset)
    IN  IF IsOk(r.res) THEN [r EXCEPT !.res = Ok(u16_as_i16(r.res.val))] ELSE r

decode_i32(b, offset) ==
    LET r == decode_u32(b, offset)
    IN  IF IsOk(r.res) THEN [r EXCEPT !.res = Ok(u32_as_i32(r.res.val))] ELSE r

decode_i64(b, offset) ==
    LET r == decode_u64(b, offset)
    IN  IF IsOk(r.res) THEN [r EXCEPT !.res = Ok(u64_as_i64(r.res.val))] ELSE r

decode_f32(b, offset) ==
    LET r == decode_u32(b, offset)
    IN  IF IsOk(r.res) THEN [r EXCEPT !.res = Ok(f32_from_bits(r.res.val))] ELSE r

decode_f64(b, offset) ==
    LET r == decode_u64(b, offset)
    IN  IF IsOk(r.res) THEN [r EXCEPT !.res = Ok(f64_from_bits(r.res.val))] ELSE r

\* &buf[offset + 4..offset + 4 + len], len: usize at most MAX_ARRAY_SIZE:
\* Ok([at, n]) for the borrowed range, or the panic
payload_range(b, offset, len) ==
    LET start == Add(offset, 4)
        end == WAdd(start, len)
    IN  IF AddPanics(offset, 4) \/ (overflow_checks /\ WOverflows(start, len))
        THEN OverflowPanic
        ELSE IF WLt(end, start) \/ Gt(end, Len(b)) THEN IndexPanic
        ELSE Ok([at |-> WToNat(start), n |-> WToNat(len)])

\* mutant: the range is checked before the length limit
decode_string_bounds_first(b, offset) ==
    LET p == decode_u32(b, offset)
    IN  IF ~IsOk(p.res) THEN p
        ELSE
        LET len == WResize(p.res.val, 4)
            total == WAdd(usize(4), len)
            needed == WAdd(offset, total)
        IN  IF Gt(needed, Len(b))
            THEN [p EXCEPT !.res = BufferTooSmall(needed, Len(b))]
            ELSE IF WLt(usize(MAX_ARRAY_SIZE), len)
                 THEN [p EXCEPT !.res =
                          ArrayTooLarge(WResize(len, 2), WOfNat(MAX_ARRAY_SIZE, 2))]
            ELSE
            LET bytes == Bytes(b, WToNat(offset) + 4, WToNat(len))
            IN  [res |-> IF utf8_valid(bytes)
                         THEN Ok([s |-> bytes, consumed |-> WToNat(total)])
                         ELSE InvalidUtf8,
                 alloc |-> WToNat(len),
                 reads |-> p.reads \cup {WToNat(offset) + 4 + i : i \in 0..(WToNat(len) - 1)}]

\* rust/sdp/src/wire_slice.rs: String::from_utf8(bytes.to_vec())?, the copy first
decode_string(b, offset) ==
    LET p == decode_u32(b, offset)
    IN  IF ~IsOk(p.res) THEN p
        ELSE
        LET len == WResize(p.res.val, 4)                    \* as usize
            total == WAdd(usize(4), len)
            needed == WAdd(offset, total)
            r == payload_range(b, offset, len)
        IN  IF WLt(usize(MAX_ARRAY_SIZE), len)
            THEN [p EXCEPT !.res =
                     ArrayTooLarge(WResize(len, 2), WOfNat(MAX_ARRAY_SIZE, 2))]
            ELSE IF overflow_checks /\ WOverflows(offset, total)
                 THEN [p EXCEPT !.res = OverflowPanic]
            ELSE IF Gt(needed, Len(b))
                 THEN [p EXCEPT !.res = BufferTooSmall(needed, Len(b))]
            ELSE IF ~IsOk(r) THEN [p EXCEPT !.res = r]
            ELSE
            LET bytes == Bytes(b, r.val.at, r.val.n)
                read == p.reads \cup {r.val.at + i : i \in 0..(r.val.n - 1)}
                consumed == WToNat(total)
            IN  IF utf8_valid(bytes)
                THEN [res |-> Ok([s |-> bytes, consumed |-> consumed]),
                      alloc |-> r.val.n, reads |-> read]
                ELSE [res |-> InvalidUtf8, alloc |-> r.val.n, reads |-> read]

\* generated rustexp copy: std::str::from_utf8(bytes)?.to_string(), the check first
decode_string_rustexp(b, offset) ==
    LET p == decode_u32(b, offset)
    IN  IF ~IsOk(p.res) THEN p
        ELSE
        LET len == WResize(p.res.val, 4)                    \* as usize
            total == WAdd(usize(4), len)
            needed == WAdd(offset, total)
            r == payload_range(b, offset, len)
        IN  IF WLt(usize(MAX_ARRAY_SIZE_rustexp), len)
            THEN [p EXCEPT !.res =
                     ArrayTooLarge(WResize(len, 2), WOfNat(MAX_ARRAY_SIZE_rustexp, 2))]
            ELSE IF overflow_checks /\ WOverflows(offset, total)
                 THEN [p EXCEPT !.res = OverflowPanic]
            ELSE IF Gt(needed, Len(b))
                 THEN [p EXCEPT !.res = BufferTooSmall(needed, Len(b))]
            ELSE IF ~IsOk(r) THEN [p EXCEPT !.res = r]
            ELSE
            LET bytes == Bytes(b, r.val.at, r.val.n)
                read == p.reads \cup {r.val.at + i : i \in 0..(r.val.n - 1)}
                consumed == WToNat(total)
            IN  IF utf8_valid(bytes)
                THEN [res |-> Ok([s |-> bytes, consumed |-> consumed]),
                      alloc |-> r.val.n, reads |-> read]
                ELSE [res |-> InvalidUtf8, alloc |-> 0, reads |-> read]

\* mutant: the limit itself is rejected
decode_bytes_exclusive(b, offset) ==
    LET p == decode_u32(b, offset)
    IN  IF ~IsOk(p.res) THEN p
        ELSE
        LET len == WResize(p.res.val, 4)                    \* as usize
            total == WAdd(usize(4), len)
            needed == WAdd(offset, total)
            r == payload_range(b, offset, len)
        IN  IF WLe(usize(MAX_ARRAY_SIZE), len)
            THEN [p EXCEPT !.res =
                     ArrayTooLarge(WResize(len, 2), WOfNat(MAX_ARRAY_SIZE, 2))]
            ELSE IF overflow_checks /\ WOverflows(offset, total)
                 THEN [p EXCEPT !.res = OverflowPanic]
            ELSE IF Gt(needed, Len(b))
                 THEN [p EXCEPT !.res = BufferTooSmall(needed, Len(b))]
            ELSE IF ~IsOk(r) THEN [p EXCEPT !.res = r]
            ELSE
            LET bytes == Bytes(b, r.val.at, r.val.n)
                read == p.reads \cup {r.val.at + i : i \in 0..(r.val.n - 1)}
                consumed == WToNat(total)
            IN  [res |-> Ok([s |-> bytes, consumed |-> consumed]),
                 alloc |-> r.val.n, reads |-> read]

decode_bytes(b, offset) ==
    LET p == decode_u32(b, offset)
    IN  IF ~IsOk(p.res) THEN p
        ELSE
        LET len == WResize(p.res.val, 4)                    \* as usize
            total == WAdd(usize(4), len)
            needed == WAdd(offset, total)
            r == payload_range(b, offset, len)
        IN  IF WLt(usize(MAX_ARRAY_SIZE), len)
            THEN [p EXCEPT !.res =
                     ArrayTooLarge(WResize(len, 2), WOfNat(MAX_ARRAY_SIZE, 2))]
            ELSE IF overflow_checks /\ WOverflows(offset, total)
                 THEN [p EXCEPT !.res = OverflowPanic]
            ELSE IF Gt(needed, Len(b))
                 THEN [p EXCEPT !.res = BufferTooSmall(needed, Len(b))]
            ELSE IF ~IsOk(r) THEN [p EXCEPT !.res = r]
            ELSE
            LET bytes == Bytes(b, r.val.at, r.val.n)
                read == p.reads \cup {r.val.at + i : i \in 0..(r.val.n - 1)}
                consumed == WToNat(total)
            IN  [res |-> Ok([s |-> bytes, consumed |-> consumed]),
                 alloc |-> r.val.n, reads |-> read]

(***************************************************************************)
(* wire.rs: Encoder<W>.  The writer is a Vec<u8>, whose write_all appends  *)
(* and never fails.  Each write returns [res, writer].                     *)
(***************************************************************************)
MAX_ARRAY_SIZE_wire == 10000000

write_all(w, bytes) == [res |-> Ok(Unit), writer |-> w \o bytes]

write_bool(w, value) == write_all(w, <<IF value THEN 1 ELSE 0>>)
write_u8(w, value) == write_all(w, <<value>>)
write_u16_padded(w, value) == write_all(w, u16_to_le_bytes(value) \o <<0, 0>>)
write_u16(w, value) == write_all(w, u16_to_le_bytes(value))
write_u32(w, value) == write_all(w, W_to_le_bytes(value))
write_u64(w, value) == write_all(w, W_to_le_bytes(value))
write_i8(w, value) == write_all(w, <<i8_as_u8(value)>>)
write_i16(w, value) == write_all(w, u16_to_le_bytes(i16_as_u16(value)))
write_i32(w, value) == write_all(w, W_to_le_bytes(i32_as_u32(value)))
write_i64(w, value) == write_all(w, W_to_le_bytes(i64_as_u64(value)))
write_f32(w, value) == write_all(w, W_to_le_bytes(f32_to_bits(value)))
\* mutant: the f64 goes out in the host's (big-endian) order
write_f64_big_endian(w, value) ==
    write_all(w, [i \in 1..8 |-> W_to_le_bytes(f64_to_bits(value))[9 - i]])

write_f64(w, value) == write_all(w, W_to_le_bytes(f64_to_bits(value)))

write_string_nul_terminated(w, value) ==
    LET p == write_u32(w, WResize(usize(Len(value)), 2))
    IN  IF ~IsOk(p.res) THEN p ELSE write_all(p.writer, value \o <<0>>)

write_string(w, value) ==
    LET bytes == value                                       \* value.as_bytes()
        p == write_u32(w, WResize(usize(Len(bytes)), 2))     \* bytes.len() as u32
    IN  IF ~IsOk(p.res) THEN p ELSE write_all(p.writer, bytes)

write_bytes(w, value) ==
    LET p == write_u32(w, WResize(usize(Len(value)), 2))     \* value.len() as u32
    IN  IF ~IsOk(p.res) THEN p ELSE write_all(p.writer, value)

(***************************************************************************)
(* wire.rs: Decoder<R>.  The reader is a byte slice or a Cursor over one:  *)
(* [data, pos, drains].  A read_exact that meets the end of the data fails *)
(* with UnexpectedEof and leaves the position unspecified: where it was    *)
(* (drains = FALSE) or at the end (drains = TRUE).  Each read returns      *)
(* [res, reader, alloc].                                                   *)
(***************************************************************************)
NoReader == [data |-> <<>>, pos |-> -1, drains |-> FALSE, next |-> 0]

\* Read::read_exact into a buffer of n bytes: Ok(the bytes), or Io(UnexpectedEof)
read_exact(rd, n) ==
    IF n > Len(rd.data) - rd.pos
    THEN [res |-> Io("UnexpectedEof"), alloc |-> 0,
          reader |-> IF rd.drains THEN [rd EXCEPT !.pos = Len(rd.data)] ELSE rd]
    ELSE [res |-> Ok(Bytes(rd.data, rd.pos, n)), alloc |-> 0,
          reader |-> [rd EXCEPT !.pos = rd.pos + n]]

\* mutant: any non-zero byte is true
read_bool_nonzero(rd) ==
    LET r == read_exact(rd, 1)
    IN  IF ~IsOk(r.res) THEN r ELSE [r EXCEPT !.res = Ok(r.res.val[1] # 0)]

read_bool(rd) ==
    LET r == read_exact(rd, 1)
    IN  IF ~IsOk(r.res) THEN r
        ELSE LET v == r.res.val[1]
             IN  [r EXCEPT !.res = IF v = 0 THEN Ok(FALSE) ELSE IF v = 1 THEN Ok(TRUE)
                                   ELSE InvalidBool(v)]

read_u8(rd) ==
    LET r == read_exact(rd, 1)
    IN  IF IsOk(r.res) THEN [r EXCEPT !.res = Ok(r.res.val[1])] ELSE r

read_u16(rd) ==
    LET r == read_exact(rd, 2)
    IN  IF IsOk(r.res) THEN [r EXCEPT !.res = Ok(u16_from_le_bytes(r.res.val))] ELSE r

\* mutant: the four bytes taken in network (big-endian) order
read_u32_big_endian(rd) ==
    LET r == read_exact(rd, 4)
    IN  IF IsOk(r.res)
        THEN [r EXCEPT !.res = Ok(W_from_le_bytes([i \in 1..4 |-> r.res.val[5 - i]]))]
        ELSE r

read_u32(rd) ==
    LET r == read_exact(rd, 4)
    IN  IF IsOk(r.res) THEN [r EXCEPT !.res = Ok(W_from_le_bytes(r.res.val))] ELSE r

read_u64(rd) ==
    LET r == read_exact(rd, 8)
    IN  IF IsOk(r.res) THEN [r EXCEPT !.res = Ok(W_from_le_bytes(r.res.val))] ELSE r

read_i8(rd) ==
    LET r == read_exact(rd, 1)
    IN  IF IsOk(r.res) THEN [r EXCEPT !.res = Ok(u8_as_i8(r.res.val[1]))] ELSE r

read_i16(rd) ==
    LET r == read_exact(rd, 2)
    IN  IF IsOk(r.res)
        THEN [r EXCEPT !.res = Ok(u16_as_i16(u16_from_le_bytes(r.res.val)))] ELSE r

read_i32(rd) ==
    LET r == read_exact(rd, 4)
    IN  IF IsOk(r.res)
        THEN [r EXCEPT !.res = Ok(u32_as_i32(W_from_le_bytes(r.res.val)))] ELSE r

read_i64(rd) ==
    LET r == read_exact(rd, 8)
    IN  IF IsOk(r.res)
        THEN [r EXCEPT !.res = Ok(u64_as_i64(W_from_le_bytes(r.res.val)))] ELSE r

read_f32(rd) ==
    LET r == read_exact(rd, 4)
    IN  IF IsOk(r.res)
        THEN [r EXCEPT !.res = Ok(f32_from_bits(W_from_le_bytes(r.res.val)))] ELSE r

read_f64(rd) ==
    LET r == read_exact(rd, 8)
    IN  IF IsOk(r.res)
        THEN [r EXCEPT !.res = Ok(f64_from_bits(W_from_le_bytes(r.res.val)))] ELSE r

read_string(rd) ==
    LET p == read_u32(rd)
    IN  IF ~IsOk(p.res) THEN p
        ELSE
        LET len == p.res.val
        IN  IF WLt(WOfNat(MAX_ARRAY_SIZE_wire, 2), len)
            THEN [p EXCEPT !.res = ArrayTooLarge(len, WOfNat(MAX_ARRAY_SIZE_wire, 2))]
            ELSE
            LET n == WToNat(len)                       \* vec![0u8; len as usize]
                r == read_exact(p.reader, n)
            IN  IF ~IsOk(r.res) THEN [r EXCEPT !.alloc = n]
                ELSE IF utf8_valid(r.res.val) THEN [r EXCEPT !.alloc = n]
                ELSE [r EXCEPT !.res = InvalidUtf8, !.alloc = n]

\* a read_bytes that skips the rest of the input when it rejects the prefix
read_bytes_skipping(rd) ==
    LET p == read_u32(rd)
    IN  IF ~IsOk(p.res) THEN p
        ELSE
        LET len == p.res.val
        IN  IF WLt(WOfNat(MAX_ARRAY_SIZE_wire, 2), len)
            THEN [p EXCEPT !.res = ArrayTooLarge(len, WOfNat(MAX_ARRAY_SIZE_wire, 2)),
                           !.reader.pos = Len(rd.data)]
            ELSE
            LET n == WToNat(len)
                r == read_exact(p.reader, n)
            IN  [r EXCEPT !.alloc = n]

read_bytes(rd) ==
    LET p == read_u32(rd)
    IN  IF ~IsOk(p.res) THEN p
        ELSE
        LET len == p.res.val
        IN  IF WLt(WOfNat(MAX_ARRAY_SIZE_wire, 2), len)
            THEN [p EXCEPT !.res = ArrayTooLarge(len, WOfNat(MAX_ARRAY_SIZE_wire, 2))]
            ELSE
            LET n == WToNat(len)                       \* vec![0u8; len as usize]
                r == read_exact(p.reader, n)
            IN  [r EXCEPT !.alloc = n]

(***************************************************************************)
(* The primitive types by name.                                            *)
(***************************************************************************)
FixedTypes ==
    {"bool", "u8", "u16", "u32", "u64", "i8", "i16", "i32", "i64", "f32", "f64"}
PrefixedTypes == {"string", "bytes"}

\* size_of the fixed-width types
Width(ty) ==
    CASE ty \in {"bool", "u8", "i8"} -> 1
      [] ty \in {"u16", "i16"} -> 2
      [] ty \in {"u32", "i32", "f32"} -> 4
      [] ty \in {"u64", "i64", "f64"} -> 8

encode_as(ty, b, offset, v) ==
    CASE ty = "bool" -> encode_bool(b, offset, v)
      [] ty = "u8" -> encode_u8(b, offset, v)
      [] ty = "u16" -> encode_u16(b, offset, v)
      [] ty = "u32" -> encode_u32(b, offset, v)
      [] ty = "u64" -> encode_u64(b, offset, v)
      [] ty = "i8" -> encode_i8(b, offset, v)
      [] ty = "i16" -> encode_i16(b, offset, v)
      [] ty = "i32" -> encode_i32(b, offset, v)
      [] ty = "i64" -> encode_i64(b, offset, v)
      [] ty = "f32" -> encode_f32(b, offset, v)
      [] ty = "f64" -> encode_f64(b, offset, v)
      [] ty = "string" -> encode_string(b, offset, v)
      [] ty = "bytes" -> encode_bytes(b, offset, v)

\* the primitive of a type, by the name of the type
decode_as(ty, b, offset) ==
    CASE ty = "bool" -> decode_bool(b, offset)
      [] ty = "u8" -> decode_u8(b, offset)
      [] ty = "u16" -> decode_u16(b, offset)
      [] ty = "u32" -> decode_u32(b, offset)
      [] ty = "u64" -> decode_u64(b, offset)
      [] ty = "i8" -> decode_i8(b, offset)
      [] ty = "i16" -> decode_i16(b, offset)
      [] ty = "i32" -> decode_i32(b, offset)
      [] ty = "i64" -> decode_i64(b, offset)
      [] ty = "f32" -> decode_f32(b, offset)
      [] ty = "f64" -> decode_f64(b, offset)
      [] ty = "string" -> decode_string(b, offset)
      [] ty = "bytes" -> decode_bytes(b, offset)

write_as(ty, w, v) ==
    CASE ty = "bool" -> write_bool(w, v)
      [] ty = "u8" -> write_u8(w, v)
      [] ty = "u16" -> write_u16(w, v)
      [] ty = "u32" -> write_u32(w, v)
      [] ty = "u64" -> write_u64(w, v)
      [] ty = "i8" -> write_i8(w, v)
      [] ty = "i16" -> write_i16(w, v)
      [] ty = "i32" -> write_i32(w, v)
      [] ty = "i64" -> write_i64(w, v)
      [] ty = "f32" -> write_f32(w, v)
      [] ty = "f64" -> write_f64(w, v)
      [] ty = "string" -> write_string(w, v)
      [] ty = "bytes" -> write_bytes(w, v)

read_as(ty, rd) ==
    CASE ty = "bool" -> read_bool(rd)
      [] ty = "u8" -> read_u8(rd)
      [] ty = "u16" -> read_u16(rd)
      [] ty = "u32" -> read_u32(rd)
      [] ty = "u64" -> read_u64(rd)
      [] ty = "i8" -> read_i8(rd)
      [] ty = "i16" -> read_i16(rd)
      [] ty = "i32" -> read_i32(rd)
      [] ty = "i64" -> read_i64(rd)
      [] ty = "f32" -> read_f32(rd)
      [] ty = "f64" -> read_f64(rd)
      [] ty = "string" -> read_string(rd)
      [] ty = "bytes" -> read_bytes(rd)

(***************************************************************************)
(* Generated record code (the record contract of the schema compiler).     *)
(* A schema type is Prim(t), ArrayOf(T), OptionalOf(T) or Record(fields);  *)
(* a value is a primitive value, a sequence of elements, None or Some(x),  *)
(* or the tuple of the field values in declaration order.  The code is     *)
(* generated per schema; here it is one codec that walks the schema type   *)
(* and calls the primitives of wire_slice.rs and wire.rs.                  *)
(***************************************************************************)
Prim(t) == [k |-> "prim", ty |-> t]
ArrayOf(T) == [k |-> "array", of |-> T]
OptionalOf(T) == [k |-> "optional", of |-> T]
Record(fields) == [k |-> "record", fields |-> fields]
None == [some |-> FALSE]
Some(x) == [some |-> TRUE, v |-> x]

\* R.encoded_size(): the exact number of bytes the encoders write
RECURSIVE encoded_size(_, _)
encoded_size(T, v) ==
    LET RECURSIVE all(_, _)
        all(Ts, vs) ==
            IF Len(Ts) = 0 THEN 0
            ELSE encoded_size(Head(Ts), Head(vs)) + all(Tail(Ts), Tail(vs))
    IN  CASE T.k = "prim" ->
                IF T.ty \in PrefixedTypes THEN 4 + Len(v) ELSE Width(T.ty)
          [] T.k = "array" -> 4 + all([i \in 1..Len(v) |-> T.of], v)
          [] T.k = "optional" -> 1 + (IF v.some THEN encoded_size(T.of, v.v) ELSE 0)
          [] T.k = "record" -> all(T.fields, v)

\* the slice encoder of a value at the 0-based index at: [res, buf, at], at
\* the index after the bytes written
RECURSIVE encode_value(_, _, _, _)
encode_value(T, v, b, at) ==
    LET stop(out) == [res |-> out.res, buf |-> out.buf, at |-> at]
        RECURSIVE all(_, _, _, _)
        all(Ts, vs, bb, a) ==
            IF Len(Ts) = 0 THEN [res |-> Ok(Unit), buf |-> bb, at |-> a]
            ELSE LET out == encode_value(Head(Ts), Head(vs), bb, a)
                 IN  IF ~IsOk(out.res) THEN out
                     ELSE all(Tail(Ts), Tail(vs), out.buf, out.at)
    IN  CASE T.k = "prim" ->
                LET out == encode_as(T.ty, b, usize(at), v)
                IN  IF ~IsOk(out.res) THEN stop(out)
                    ELSE [res |-> Ok(Unit), buf |-> out.buf,
                          at |-> at + encoded_size(T, v)]
          [] T.k = "array" ->
                \* the element count as u32, then each element in turn
                LET out == encode_u32(b, usize(at), WResize(usize(Len(v)), 2))
                IN  IF ~IsOk(out.res) THEN stop(out)
                    ELSE all([i \in 1..Len(v) |-> T.of], v, out.buf, at + 4)
          [] T.k = "optional" ->
                \* the presence byte, then the payload iff present
                LET out == encode_bool(b, usize(at), v.some)
                IN  IF ~IsOk(out.res) THEN stop(out)
                    ELSE IF v.some THEN encode_value(T.of, v.v, out.buf, at + 1)
                    ELSE [res |-> Ok(Unit), buf |-> out.buf, at |-> at + 1]
          [] T.k = "record" -> all(T.fields, v, b, at)

\* R.encode_to_slice(buf): writes R from offset 0, returns the bytes written
encode_to_slice(T, v, b) ==
    LET out == encode_value(T, v, b, 0)
    IN  [res |-> IF IsOk(out.res) THEN Ok(out.at) ELSE out.res, buf |-> out.buf]

\* the slice decoder of a value at the 0-based index at: [res, at]
RECURSIVE decode_value(_, _, _)
decode_value(T, b, at) ==
    LET RECURSIVE fields(_, _, _)
        RECURSIVE elems(_, _, _)
        \* `?` on the decode d of a field or an element, then the rest
        then_fields(Ts, d, acc) ==
            IF ~IsOk(d.res) THEN d
            ELSE fields(Tail(Ts), d.at, Append(acc, d.res.val))
        then_elems(n, d, acc) ==
            IF ~IsOk(d.res) THEN d
            ELSE elems(n - 1, d.at, Append(acc, d.res.val))
        fields(Ts, a, acc) ==
            IF Len(Ts) = 0 THEN [res |-> Ok(acc), at |-> a]
            ELSE then_fields(Ts, decode_value(Head(Ts), b, a), acc)
        elems(n, a, acc) ==
            IF n = 0 THEN [res |-> Ok(acc), at |-> a]
            ELSE then_elems(n, decode_value(T.of, b, a), acc)
        \* a primitive: the value, and the index after it
        prim(d) ==
            IF ~IsOk(d.res) THEN [res |-> d.res, at |-> at]
            ELSE IF T.ty \in PrefixedTypes
                 THEN [res |-> Ok(d.res.val.s), at |-> at + d.res.val.consumed]
            ELSE [res |-> d.res, at |-> at + Width(T.ty)]
        \* an array: the element count d as u32, then each element in turn
        array(d) ==
            IF ~IsOk(d.res) THEN [res |-> d.res, at |-> at]
            ELSE IF WLt(u32(MAX_ARRAY_SIZE), d.res.val)
                 THEN [res |-> ArrayTooLarge(d.res.val, u32(MAX_ARRAY_SIZE)), at |-> at]
            ELSE elems(WToNat(d.res.val), at + 4, <<>>)
        \* an optional: the presence byte d, then the payload iff present
        some(x) ==
            IF ~IsOk(x.res) THEN x ELSE [res |-> Ok(Some(x.res.val)), at |-> x.at]
        optional(d) ==
            IF ~IsOk(d.res) THEN [res |-> d.res, at |-> at]
            ELSE IF ~d.res.val THEN [res |-> Ok(None), at |-> at + 1]
            ELSE some(decode_value(T.of, b, at + 1))
    IN  CASE T.k = "prim" -> prim(decode_as(T.ty, b, usize(at)))
          [] T.k = "array" -> array(decode_u32(b, usize(at)))
          [] T.k = "optional" -> optional(decode_bool(b, usize(at)))
          [] T.k = "record" -> fields(T.fields, at, <<>>)

\* R::decode_from_slice(buf): reads R from offset 0, need not consume all of buf
decode_from_slice(T, b) == decode_value(T, b, 0).res

\* R.encode(writer): [res, writer]
RECURSIVE encode(_, _, _)
encode(T, v, w) ==
    LET RECURSIVE all(_, _, _)
        all(Ts, vs, ww) ==
            IF Len(Ts) = 0 THEN [res |-> Ok(Unit), writer |-> ww]
            ELSE LET out == encode(Head(Ts), Head(vs), ww)
                 IN  IF ~IsOk(out.res) THEN out
                     ELSE all(Tail(Ts), Tail(vs), out.writer)
    IN  CASE T.k = "prim" -> write_as(T.ty, w, v)
          [] T.k = "array" ->
                LET out == write_u32(w, WResize(usize(Len(v)), 2))
                IN  IF ~IsOk(out.res) THEN out
                    ELSE all([i \in 1..Len(v) |-> T.of], v, out.writer)
          [] T.k = "optional" ->
                LET out == write_bool(w, v.some)
                IN  IF ~IsOk(out.res) \/ ~v.some THEN out
                    ELSE encode(T.of, v.v, out.writer)
          [] T.k = "record" -> all(T.fields, v, w)

\* R::decode(reader): [res, reader]
RECURSIVE decode(_, _)
decode(T, rd) ==
    LET RECURSIVE fields(_, _, _)
        fields(Ts, r, acc) ==
            IF Len(Ts) = 0 THEN [res |-> Ok(acc), reader |-> r]
            ELSE LET d == decode(Head(Ts), r)
                 IN  IF ~IsOk(d.res) THEN d
                     ELSE fields(Tail(Ts), d.reader, Append(acc, d.res.val))
        RECURSIVE elems(_, _, _)
        elems(n, r, acc) ==
            IF n = 0 THEN [res |-> Ok(acc), reader |-> r]
            ELSE LET d == decode(T.of, r)
                 IN  IF ~IsOk(d.res) THEN d
                     ELSE elems(n - 1, d.reader, Append(acc, d.res.val))
    IN  CASE T.k = "prim" ->
                LET d == read_as(T.ty, rd) IN [res |-> d.res, reader |-> d.reader]
          [] T.k = "array" ->
                LET d == read_u32(rd)
                IN  IF ~IsOk(d.res) THEN [res |-> d.res, reader |-> d.reader]
                    ELSE IF WLt(u32(MAX_ARRAY_SIZE_wire), d.res.val)
                         THEN [res |-> ArrayTooLarge(d.res.val, u32(MAX_ARRAY_SIZE_wire)),
                               reader |-> d.reader]
                    ELSE elems(WToNat(d.res.val), d.reader, <<>>)
          [] T.k = "optional" ->
                LET d == read_bool(rd)
                IN  IF ~IsOk(d.res) THEN [res |-> d.res, reader |-> d.reader]
                    ELSE IF ~d.res.val THEN [res |-> Ok(None), reader |-> d.reader]
                    ELSE LET x == decode(T.of, d.reader)
                         IN  IF ~IsOk(x.res) THEN x
                             ELSE [res |-> Ok(Some(x.res.val)), reader |-> x.reader]
          [] T.k = "record" -> fields(T.fields, rd, <<>>)

(***************************************************************************)
(* testdata/generated/rustexp/audiounit/src/wire_slice.rs: the fast-path   *)
(* array decoders.  They are given the bytes of the elements and the       *)
(* element count; what they do also depends on the address the slice       *)
(* starts at and on the byte order of the target.  A raw read past the end *)
(* of the slice is undefined behaviour: it yields whatever the memory      *)
(* behind the slice holds (`beyond`), or the process faults.               *)
(***************************************************************************)
MEMCPY_THRESHOLD_u32 == 64
MEMCPY_THRESHOLD_f64 == 32

Reverse(s) == [i \in 1..Len(s) |-> s[Len(s) + 1 - i]]

\* the byte a raw read finds at index i from the start of the slice
Memory(bytes, beyond, i) == IF i < Len(bytes) THEN bytes[i + 1] ELSE beyond

\* ptr::read_unaligned, copy_nonoverlapping into a Vec<T>, or a &[T] view:
\* the width bytes from index at, as a number in the byte order of the target
read_native(bytes, beyond, at, width) ==
    LET m == [j \in 1..width |-> Memory(bytes, beyond, at + j - 1)]
    IN  W_from_le_bytes(IF target_endian = "big" THEN Reverse(m) ELSE m)

\* uN::from_le(v): swap_bytes on a big-endian target, the identity otherwise
swap_bytes(v) == W_from_le_bytes(Reverse(W_to_le_bytes(v)))
from_le(v) == IF target_endian = "big" THEN swap_bytes(v) ELSE v

\* bytemuck::try_cast_slice::<u8, T>(bytes) is Ok: the slice starts at an address
\* aligned for T and its length is a multiple of size_of::<T>(); the view then
\* has bytes.len() / size_of::<T>() elements
try_cast_slice(addr, bytes, width) == addr % width = 0 /\ Len(bytes) % width = 0

\* mutant: the bulk copy only above the threshold
decode_u32_array_fast_above(bytes, count, addr, beyond) ==
    IF try_cast_slice(addr, bytes, 4)
    THEN \* slice.to_vec()
         [res |-> Ok([i \in 1..(Len(bytes) \div 4) |->
                         read_native(bytes, beyond, 4 * (i - 1), 4)]),
          reads |-> 0..(Len(bytes) - 1), path |-> "cast"]
    ELSE IF count > MEMCPY_THRESHOLD_u32
    THEN \* copy_nonoverlapping of count * 4 bytes, then from_le on a big-endian target
         [res |-> Ok([i \in 1..count |->
                         LET v == read_native(bytes, beyond, 4 * (i - 1), 4)
                         IN  IF target_endian = "big" THEN from_le(v) ELSE v]),
          reads |-> 0..(count * 4 - 1), path |-> "memcpy"]
    ELSE \* read_unaligned(ptr.add(i)) and from_le, for i in 0..count
         [res |-> Ok([i \in 1..count |->
                         from_le(read_native(bytes, beyond, 4 * (i - 1), 4))]),
          reads |-> 0..(count * 4 - 1), path |-> "loop"]

\* decode_u32_array_fast(bytes, count): [res, reads, path]
decode_u32_array_fast(bytes, count, addr, beyond) ==
    IF try_cast_slice(addr, bytes, 4)
    THEN \* slice.to_vec()
         [res |-> Ok([i \in 1..(Len(bytes) \div 4) |->
                         read_native(bytes, beyond, 4 * (i - 1), 4)]),
          reads |-> 0..(Len(bytes) - 1), path |-> "cast"]
    ELSE IF count >= MEMCPY_THRESHOLD_u32
    THEN \* copy_nonoverlapping of count * 4 bytes, then from_le on a big-endian target
         [res |-> Ok([i \in 1..count |->
                         LET v == read_native(bytes, beyond, 4 * (i - 1), 4)
                         IN  IF target_endian = "big" THEN from_le(v) ELSE v]),
          reads |-> 0..(count * 4 - 1), path |-> "memcpy"]
    ELSE \* read_unaligned(ptr.add(i)) and from_le, for i in 0..count
         [res |-> Ok([i \in 1..count |->
                         from_le(read_native(bytes, beyond, 4 * (i - 1), 4))]),
          reads |-> 0..(count * 4 - 1), path |-> "loop"]

\* decode_f64_array_fast(bytes, count): [res, reads, path]
decode_f64_array_fast(bytes, count, addr, beyond) ==
    IF try_cast_slice(addr, bytes, 8)
    THEN [res |-> Ok([i \in 1..(Len(bytes) \div 8) |->
                         f64_from_bits(read_native(bytes, beyond, 8 * (i - 1), 8))]),
          reads |-> 0..(Len(bytes) - 1), path |-> "cast"]
    ELSE IF count >= MEMCPY_THRESHOLD_f64
    THEN [res |-> Ok([i \in 1..count |->
                         LET v == f64_from_bits(read_native(bytes, beyond, 8 * (i - 1), 8))
                         IN  IF target_endian = "big"
                             THEN f64_from_bits(from_le(f64_to_bits(v))) ELSE v]),
          reads |-> 0..(count * 8 - 1), path |-> "memcpy"]
    ELSE [res |-> Ok([i \in 1..count |->
                         LET bits == f64_to_bits(f64_from_bits(
                                         read_native(bytes, beyond, 8 * (i - 1), 8)))
                         IN  f64_from_bits(from_le(bits))]),
          reads |-> 0..(count * 8 - 1), path |-> "loop"]

\* benchmarks/rust/decode-test: the element-wise decoder the strategies are
\* compared with, bytes.chunks_exact(4).map(u32::from_le_bytes)
decode_chunks_exact(bytes) ==
    [i \in 1..(Len(bytes) \div 4) |-> W_from_le_bytes(Bytes(bytes, 4 * (i - 1), 4))]

(***************************************************************************)
(* The inputs of the calls.                                                *)
(***************************************************************************)
Values(ty) ==
    CASE ty = "bool" -> BOOLEAN
      [] ty = "u8" -> {2, 255}
      [] ty = "u16" -> {43981, 65535}                          \* 0xABCD
      [] ty = "u32" -> {u32(42), u32(305419896), u32_MAX}      \* 0x12345678
      [] ty = "u64" -> {<<57072, 39612, 22136, 4660>>, u64_MAX}
                                                               \* 0x123456789ABCDEF0
      [] ty = "i8" -> {-128, -1}
      [] ty = "i16" -> {-32768, 4660}
      [] ty = "i32" -> {-2147483647 - 1, 2147483647}
      [] ty = "i64" -> {[hi |-> -2147483647 - 1, lo |-> u32(0)],
                        [hi |-> -1, lo |-> u32_MAX]}
      [] ty = "f32" -> {[bits |-> <<4048, 16457>>],            \* 3.14159
                        [bits |-> <<1, 65472>>]}               \* a NaN with a payload
      [] ty = "f64" -> {[bits |-> <<22377, 35604, 48906, 16389>>],  \* 2.718281828459045
                        [bits |-> <<0, 0, 0, 32768>>]}         \* -0.0
      [] ty = "string" -> {<<>>, <<72, 105>>, <<195, 169>>}    \* "", "Hi", "e-acute"
      [] ty = "bytes" -> {<<>>, <<255>>, <<0, 1>>}

\* offsets: 0..MaxOffset, and usize::MAX - k where offset + width reaches 2^64
Back(k) == [usize_MAX EXCEPT ![1] = LimbBase - 1 - k]
Offsets == {usize(n) : n \in 0..MaxOffset} \cup {Back(k) : k \in {0, 1, 3, 5, 7}}

\* buffers handed to the encoders: every length, filled with one byte
FillBufs == {[i \in 1..n |-> f] : n \in 0..MaxBufLen, f \in {0, 170}}

\* buffers handed to the decoders: a length prefix and a payload, 8-byte
\* scalars, each also behind one earlier byte, and every truncation of those
PrefixValues ==
    {u32(0), u32(1), u32(2), u32(3), u32(MAX_ARRAY_SIZE), u32(MAX_ARRAY_SIZE + 1),
     u32_MAX}
Payloads ==
    {<<>>, <<72>>, <<169>>, <<255>>, <<72, 105>>, <<195, 169>>, <<195, 72>>}
Framed == {W_to_le_bytes(p) \o q : p \in PrefixValues, q \in Payloads}
Wide == {W_to_le_bytes(v) : v \in Values("u64")}
Whole == Framed \cup Wide
Truncations(S) == UNION {{SubSeq(b, 1, n) : n \in 0..Len(b)} : b \in S}
DecodeBufs == Truncations(Whole) \cup {<<170>> \o b : b \in Whole}
ByteBufs == {<<v>> : v \in Byte}

\* what a slice call is made on
SliceInputs == FillBufs \cup DecodeBufs \cup ByteBufs
DecodeInputs(ty) ==
    IF ty \in {"bool", "u8", "i8"} THEN DecodeBufs \cup ByteBufs ELSE DecodeBufs

\* what a Decoder is given to read, apart from an Encoder's output
StreamInputs == Truncations(Whole) \cup ByteBufs

\* schemas in the shape of the test data, and values of them
Metadata == Record(<<Prim("u64"), Prim("string")>>)            \* user_id, username
Request == Record(<<Prim("u32"), OptionalOf(Metadata)>>)       \* id, metadata
ArraysOfPrimitives ==
    Record(<<ArrayOf(Prim("u8")), ArrayOf(Prim("u32")), ArrayOf(Prim("f64")),
             ArrayOf(Prim("string")), ArrayOf(Prim("bool"))>>)
Point == Record(<<Prim("f64"), Prim("f64")>>)                  \* x, y
Rectangle == Record(<<Point, Prim("f64"), Prim("f64")>>)       \* top_left, width, height
Scene == Record(<<Prim("string"), ArrayOf(Rectangle)>>)        \* name, shapes
TagList == Record(<<ArrayOf(Prim("string"))>>)                 \* items
Document == Record(<<Prim("u32"), OptionalOf(TagList)>>)       \* id, tags
AllPrimitives ==
    Record(<<Prim("u8"), Prim("u16"), Prim("u32"), Prim("u64"), Prim("i8"),
             Prim("i16"), Prim("i32"), Prim("i64"), Prim("f32"), Prim("f64"),
             Prim("bool"), Prim("string")>>)

F64s == Values("f64")
Points == {<<x, y>> : x \in F64s, y \in F64s}
Rectangles == {<<p, w, w>> : p \in Points, w \in F64s}
Schemas ==
    {"Request", "ArraysOfPrimitives", "Point", "Rectangle", "Scene", "Document",
     "AllPrimitives"}
RecordValues(name) ==
    CASE name = "Request" ->
            {[T |-> Request, v |-> <<u32(42), m>>] :
                m \in {None} \cup {Some(<<u64_MAX, n>>) : n \in {<<>>, <<72, 105>>}}}
      [] name = "ArraysOfPrimitives" ->
            {[T |-> ArraysOfPrimitives, v |-> a] :
                a \in {<<<<>>, <<>>, <<>>, <<>>, <<>>>>,
                       <<<<1, 2>>, <<u32(100), u32(200), u32(300)>>,
                         <<[bits |-> <<0, 0, 0, 32768>>]>>,
                         <<<<72, 105>>, <<>>>>, <<TRUE, FALSE, TRUE>>>>}}
      [] name = "Point" -> {[T |-> Point, v |-> q] : q \in Points}
      [] name = "Rectangle" -> {[T |-> Rectangle, v |-> r] : r \in Rectangles}
      [] name = "Scene" ->
            {[T |-> Scene, v |-> <<<<72>>, sh>>] :
                sh \in {<<>>} \cup {<<r>> : r \in Rectangles}}
      [] name = "Document" ->
            {[T |-> Document, v |-> <<u32_MAX, t>>] :
                t \in {None, Some(<<<<>>>>), Some(<<<<<<72, 105>>, <<195, 169>>>>>>)}}
      [] name = "AllPrimitives" ->
            {[T |-> AllPrimitives,
              v |-> <<255, 65535, u32_MAX, u64_MAX, -128, -32768, -2147483647 - 1,
                      [hi |-> -2147483647 - 1, lo |-> u32(0)],
                      [bits |-> <<4048, 16457>>],
                      [bits |-> <<22377, 35604, 48906, 16389>>], TRUE, <<72, 105>>>>]}
NoRecord == [T |-> Record(<<>>), v |-> <<>>]

\* the buffers a record is encoded into: vec![0u8; n]
Zeroed(n) == [i \in 1..n |-> 0]

\* what decode_from_slice is given: the encoding, or the encoding with one byte
\* changed or the last byte missing
Damaged(b) ==
    {[b EXCEPT ![i] = x] : i \in 1..Len(b), x \in {2, 255}}
    \cup {SubSeq(b, 1, Len(b) - 1)}

(***************************************************************************)
(* Generated message-mode code: encode_<record>_message and the dispatcher *)
(* decode_message (message framing of the schema compiler).  The envelope  *)
(* is a u32 payload_length at offset 0, a u32 type_tag at offset 4 and the *)
(* record body from offset 8.  The type tags are assigned when the schema  *)
(* is compiled; here they number the records of the schema from 1.         *)
(***************************************************************************)
MessageTypes ==
    <<[variant |-> "Point", type_tag |-> 1, T |-> Point],
      [variant |-> "Rectangle", type_tag |-> 2, T |-> Rectangle]>>
MessageType(T) == CHOOSE i \in 1..Len(MessageTypes) : MessageTypes[i].T = T

UnknownMessageType(type_tag) == [tag |-> "UnknownMessageType", type_tag |-> type_tag]

\* encode_<record>_message(&r) -> Vec<u8>, for the record type MessageTypes[m]
encode_message(m, v) ==
    LET T == MessageTypes[m].T
        payload_length == encoded_size(T, v)
        b0 == Zeroed(8 + payload_length)
        b1 == encode_u32(b0, usize(0), u32(payload_length)).buf
        b2 == encode_u32(b1, usize(4), u32(MessageTypes[m].type_tag)).buf
    IN  encode_value(T, v, b2, 8).buf

\* decode_message(&buf) -> Result<Message, Error>
decode_message(b) ==
    LET message(m, r) ==
            IF IsOk(r) THEN Ok([variant |-> MessageTypes[m].variant, value |-> r.val])
            ELSE r
        delegate(m, payload_length) ==
            message(m, decode_from_slice(MessageTypes[m].T,
                                         Bytes(b, 8, WToNat(payload_length))))
        dispatch(payload_length, type_tag, known) ==
            IF Gt(payload_length, Len(b) - 8)
            THEN BufferTooSmall(Add(payload_length, 8), Len(b))
            ELSE IF known = {} THEN UnknownMessageType(type_tag)
            ELSE delegate(CHOOSE m \in known : TRUE, payload_length)
        envelope(payload_length, type_tag) ==
            dispatch(payload_length, type_tag,
                     {m \in 1..Len(MessageTypes) :
                         u32(MessageTypes[m].type_tag) = type_tag})
    IN  IF Len(b) < 8 THEN BufferTooSmall(usize(8), Len(b))
        ELSE envelope(WResize(decode_u32(b, usize(0)).res.val, 4),
                      decode_u32(b, usize(4)).res.val)

\* what decode_message is given: the message, the message with bytes of the
\* next message after it, a prefix of it, or the message with another
\* type_tag or another payload_length
Surplus(b) == {b \o s : s \in {<<0>>, <<255, 255, 255, 255, 255, 255, 255, 255, 255>>}}
Prefixes(b) == {SubSeq(b, 1, n) : n \in {0, 3, 7, 8, Len(b) - 1}}
Retagged(b) == {Splice(b, 4, W_to_le_bytes(t)) : t \in {u32(0), u32(3), u32_MAX}}
Relengthed(b) ==
    {Splice(b, 0, W_to_le_bytes(n)) : n \in {u32(Len(b) - 7), u32(Len(b)), u32_MAX}}
MessageInputs(b) == {b} \cup Surplus(b) \cup Prefixes(b) \cup Retagged(b) \cup Relengthed(b)

\* what a fast-path decoder is given: count elements' worth of bytes, or a byte
\* less, a byte more or an element more, at any address modulo 8, with a count
\* around the bulk-copy threshold of the type
Pattern(n) == [i \in 1..n |-> (7 + 37 * i) % 256]
FastCounts(ty) ==
    LET t == IF ty = "u32" THEN MEMCPY_THRESHOLD_u32 ELSE MEMCPY_THRESHOLD_f64
    IN  {0, 1, 2, t - 1, t, t + 1}
FastLens(ty, count) ==
    LET w == Width(ty)
    IN  {n \in {count * w - 1, count * w, count * w + 1, count * w + w} : n >= 0}
NoFast ==
    [op |-> "none", ty |-> "none", bytes |-> <<>>, count |-> 0, addr |-> 0,
     res |-> Ok(Unit), reads |-> {}, path |-> "none"]
FastInputs ==
    UNION {UNION {{[NoFast EXCEPT !.ty = ty, !.bytes = Pattern(n), !.count = c,
                                  !.addr = a] : n \in FastLens(ty, c), a \in 0..7} :
                  c \in FastCounts(ty)} : ty \in {"u32", "f64"}}

\* the outcomes of a raw read past the end of the slice
Segfault == [tag |-> "Segfault"]
BeyondBytes == {0, 255}

(***************************************************************************)
(* Payloads too long to write out byte by byte.  A byte string is held as  *)
(* a sequence of runs [n, b]: n copies of the byte b, n a usize.  Adjacent *)
(* runs of one byte are merged, so equal byte strings are equal sequences. *)
(***************************************************************************)
RECURSIVE WBorrow(_, _, _)
WBorrow(a, b, i) ==
    IF i = 0 THEN 0
    ELSE IF a[i] - b[i] - WBorrow(a, b, i - 1) < 0 THEN 1 ELSE 0

\* a - b for a >= b
WSub(a, b) ==
    [i \in 1..Len(a) |-> (a[i] - b[i] - WBorrow(a, b, i - 1) + LimbBase) % LimbBase]

Run(n, byte) == IF n = usize(0) THEN <<>> ELSE <<[n |-> n, b |-> byte]>>

RECURSIVE RLen(_)
RLen(r) == IF Len(r) = 0 THEN usize(0) ELSE WAdd(Head(r).n, RLen(Tail(r)))

\* the first k bytes of r, and r without them
RECURSIVE RTake(_, _)
RTake(r, k) ==
    IF Len(r) = 0 \/ k = usize(0) THEN <<>>
    ELSE IF WLe(Head(r).n, k) THEN <<Head(r)>> \o RTake(Tail(r), WSub(k, Head(r).n))
    ELSE Run(k, Head(r).b)

RECURSIVE RDrop(_, _)
RDrop(r, k) ==
    IF Len(r) = 0 \/ k = usize(0) THEN r
    ELSE IF WLe(Head(r).n, k) THEN RDrop(Tail(r), WSub(k, Head(r).n))
    ELSE Run(WSub(Head(r).n, k), Head(r).b) \o Tail(r)

RECURSIVE RNorm(_)
RNorm(r) ==
    IF Len(r) < 2 THEN r
    ELSE IF r[1].b = r[2].b
         THEN RNorm(<<[n |-> WAdd(r[1].n, r[2].n), b |-> r[1].b]>> \o SubSeq(r, 3, Len(r)))
    ELSE <<r[1]>> \o RNorm(Tail(r))

\* between runs and bytes written out (the latter for short strings only)
ROfBytes(bytes) == RNorm([i \in 1..Len(bytes) |-> [n |-> usize(1), b |-> bytes[i]]])

RECURSIVE RBytes(_)
RBytes(r) ==
    IF Len(r) = 0 THEN <<>>
    ELSE [i \in 1..WToNat(Head(r).n) |-> Head(r).b] \o RBytes(Tail(r))

\* from_utf8 on runs: exact when every byte is ASCII or 0xFF (never well-formed),
\* the bytes long payloads are filled with
utf8_valid_large(r) == \A i \in 1..Len(r) : r[i].b < 128

\* wire_slice.rs encoders and decoders on such buffers; offset + total does not
\* overflow for the offsets and lengths used
encode_string_large(b, offset, value) ==
    LET bytes == value                                \* value.as_bytes()
        len == WResize(RLen(bytes), 2)                \* bytes.len() as u32
        total == WAdd(usize(4), RLen(bytes))
        needed == WAdd(offset, total)
    IN  IF WLt(RLen(b), needed)
        THEN [res |-> BufferTooSmall(needed, RLen(b)), buf |-> b]
        ELSE [res |-> Ok(total),
              buf |-> RNorm(RTake(b, offset) \o ROfBytes(W_to_le_bytes(len))
                            \o bytes \o RDrop(b, needed))]

encode_bytes_large(b, offset, value) ==
    LET len == WResize(RLen(value), 2)                \* value.len() as u32
        total == WAdd(usize(4), RLen(value))
        needed == WAdd(offset, total)
    IN  IF WLt(RLen(b), needed)
        THEN [res |-> BufferTooSmall(needed, RLen(b)), buf |-> b]
        ELSE [res |-> Ok(total),
              buf |-> RNorm(RTake(b, offset) \o ROfBytes(W_to_le_bytes(len))
                            \o value \o RDrop(b, needed))]

\* decode_u32(buf, offset)? as usize, then the limit, the bounds, the payload
decode_bytes_large(b, offset) ==
    IF WLt(RLen(b), WAdd(offset, usize(4)))
    THEN [res |-> BufferTooSmall(WAdd(offset, usize(4)), RLen(b))]
    ELSE
    LET len == WResize(W_from_le_bytes(RBytes(RTake(RDrop(b, offset), usize(4)))), 4)
        total == WAdd(usize(4), len)
        needed == WAdd(offset, total)
    IN  IF WLt(usize(MAX_ARRAY_SIZE), len)
        THEN [res |-> ArrayTooLarge(WResize(len, 2), WOfNat(MAX_ARRAY_SIZE, 2))]
        ELSE IF WLt(RLen(b), needed)
             THEN [res |-> BufferTooSmall(needed, RLen(b))]
        ELSE [res |-> Ok([s |-> RTake(RDrop(b, WAdd(offset, usize(4))), len),
                          consumed |-> total])]

decode_string_large(b, offset) ==
    LET r == decode_bytes_large(b, offset)            \* the same checks, then
    IN  IF IsOk(r.res) /\ ~utf8_valid_large(r.res.val.s)    \* String::from_utf8
        THEN [res |-> InvalidUtf8] ELSE r

\* wire.rs Encoder and Decoder on such sinks; rd is [data, pos], pos a usize
write_string_large(w, value) ==
    LET bytes == value                                \* value.as_bytes()
        len == WResize(RLen(bytes), 2)                \* bytes.len() as u32
    IN  [res |-> Ok(Unit), writer |-> RNorm(w \o ROfBytes(W_to_le_bytes(len)) \o bytes)]

write_bytes_large(w, value) ==
    LET len == WResize(RLen(value), 2)                \* value.len() as u32
    IN  [res |-> Ok(Unit), writer |-> RNorm(w \o ROfBytes(W_to_le_bytes(len)) \o value)]

read_bytes_large(rd) ==
    LET rest == RDrop(rd.data, rd.pos)
    IN  IF WLt(RLen(rest), usize(4)) THEN [res |-> Io("UnexpectedEof"), reader |-> rd]
        ELSE
        LET len == W_from_le_bytes(RBytes(RTake(rest, usize(4))))
            p == [rd EXCEPT !.pos = WAdd(rd.pos, usize(4))]
            n == WResize(len, 4)                      \* vec![0u8; len as usize]
        IN  IF WLt(WOfNat(MAX_ARRAY_SIZE_wire, 2), len)
            THEN [res |-> ArrayTooLarge(len, WOfNat(MAX_ARRAY_SIZE_wire, 2)),
                  reader |-> p]
            ELSE IF WLt(RLen(RDrop(rest, usize(4))), n)
                 THEN [res |-> Io("UnexpectedEof"), reader |-> p]
            ELSE [res |-> Ok(RTake(RDrop(rest, usize(4)), n)),
                  reader |-> [p EXCEPT !.pos = WAdd(p.pos, n)]]

read_string_large(rd) ==
    LET r == read_bytes_large(rd)                     \* the same reads, then
    IN  IF IsOk(r.res) /\ ~utf8_valid_large(r.res.val)      \* String::from_utf8
        THEN [r EXCEPT !.res = InvalidUtf8] ELSE r

\* the payloads: strings of 'a' and byte arrays of 0xFF, of the lengths around
\* the limit of the decoders and around the range of the u32 prefix
LargeLens ==
    {usize(MAX_ARRAY_SIZE), usize(MAX_ARRAY_SIZE + 1), <<LimbBase - 1, LimbBase - 1, 0, 0>>,
     <<0, 0, 1, 0>>, <<2, 0, 1, 0>>}
LargeFill(ty) == IF ty = "string" THEN 97 ELSE 255
NoLarge ==
    [kind |-> "none", ty |-> "none", op |-> "none", value |-> <<>>, offset |-> usize(0),
     before |-> <<>>, buf |-> <<>>, res |-> Ok(Unit), back |-> Ok(Unit), pos |-> usize(0)]

\* a zeroed buffer with room for the value at the offset and `slack` bytes more,
\* or a sink that holds `offset` bytes already, which the Decoder has read
LargeInputs ==
    {[NoLarge EXCEPT !.kind = kind, !.ty = ty, !.value = Run(n, LargeFill(ty)),
                     !.offset = usize(offset),
                     !.buf = IF kind = "slice"
                             THEN Run(WAdd(usize(offset + 4 + slack), n), 0)
                             ELSE Run(usize(offset), 1)] :
        kind \in {"slice", "stream"}, ty \in PrefixedTypes, n \in LargeLens,
        offset \in {0, 3}, slack \in {0, 2}}

(***************************************************************************)
(* bin/rust_crossplatform_helper.rs: the command-line helper of the        *)
(* cross-language tests.  Each command returns the exit status of the      *)
(* process: 0 when main returns Ok, 1 when it returns Err or calls         *)
(* std::process::exit(1).                                                  *)
(***************************************************************************)
HelloFrom(who) == <<72, 101, 108, 108, 111, 32, 102, 114, 111, 109, 32>> \o who \o <<33>>
HelloFromRust == HelloFrom(<<82, 117, 115, 116>>)
HelloFromGo == HelloFrom(<<71, 111>>)
HelloFromSwift == HelloFrom(<<83, 119, 105, 102, 116>>)

\* the AllPrimitives instance of the helper, with the given str_field
Primitives(str_field) ==
    <<255, 65535, u32_MAX, u64_MAX, -128, -32768, -2147483647 - 1,
      [hi |-> -2147483647 - 1, lo |-> u32(0)],
      [bits |-> <<4048, 16457>>],                             \* 3.14159
      [bits |-> <<22377, 35604, 48906, 16389>>],              \* 2.718281828459045
      TRUE, str_field>>

\* (v - 3.14159).abs() < 0.0001 in f32.  The floats of [2, 4) are 2^-22 apart
\* and the difference of two of them is exact, so the test holds exactly for
\* the floats at most 419 steps from 3.14159 (419 * 2^-22 < 0.0001 < 420 * 2^-22);
\* it fails for every float outside [2, 4) and for NaN.
f32_near_pi(v) ==
    /\ v.bits[2] = 16457
    /\ v.bits[1] >= 4048 - 419
    /\ v.bits[1] <= 4048 + 419

\* (v - 2.718281828459045).abs() < 0.0000001 in f64: the floats of [2, 4) are
\* 2^-51 apart, and 225179981 * 2^-51 < 0.0000001 < 225179982 * 2^-51
f64_near_e(v) ==
    LET low == SubSeq(v.bits, 1, 2)
        e == <<22377, 35604>>
        steps == WOfNat(225179981, 2)
    IN  /\ SubSeq(v.bits, 3, 4) = <<48906, 16389>>
        /\ WLe(WSub(e, steps), low)
        /\ WLe(low, WAdd(e, steps))

encode_primitives ==
    LET data == Primitives(HelloFromRust)
        written(out) ==                      \* `?`, then io::stdout().write_all(&buf)
            IF IsOk(out.res) THEN [status |-> 0, stdout |-> out.buf]
            ELSE [status |-> 1, stdout |-> <<>>]
    IN  written(encode_to_slice(AllPrimitives, data,
                                Zeroed(encoded_size(AllPrimitives, data))))

decode_primitives(file_data) ==
    LET verify(decoded) ==
            /\ decoded[1] = 255
            /\ decoded[2] = 65535
            /\ decoded[3] = u32_MAX
            /\ decoded[4] = u64_MAX
            /\ decoded[5] = -128
            /\ decoded[6] = -32768
            /\ decoded[7] = -2147483647 - 1
            /\ decoded[8] = [hi |-> -2147483647 - 1, lo |-> u32(0)]
            /\ f32_near_pi(decoded[9])
            /\ f64_near_e(decoded[10])
            /\ decoded[11] = TRUE
            /\ (decoded[12] = HelloFromGo \/ decoded[12] = HelloFromSwift)
        validated(d) ==                      \* `?`, then the checks
            IF ~IsOk(d) THEN 1
            ELSE IF ~verify(d.val) THEN 1    \* std::process::exit(1)
            ELSE 0
    IN  validated(decode_from_slice(AllPrimitives, file_data))

\* the files handed to decode-primitives: the instance as another language's
\* helper writes it, with each field changed in turn, and what is left of a
\* file that was cut short or had one byte changed
PrimitivesFile(v) ==
    encode_to_slice(AllPrimitives, v, Zeroed(encoded_size(AllPrimitives, v))).buf
OtherFields ==
    <<{2}, {43981}, {u32(42)}, {<<57072, 39612, 22136, 4660>>}, {-1}, {4660},
      {2147483647}, {[hi |-> -1, lo |-> u32_MAX]},
      {[bits |-> <<4049, 16457>>], [bits |-> <<4048 + 419, 16457>>],
       [bits |-> <<4048 + 420, 16457>>], [bits |-> <<4048 - 420, 16457>>],
       [bits |-> <<4048, 16456>>], [bits |-> <<1, 65472>>]},
      {[bits |-> <<22378, 35604, 48906, 16389>>], [bits |-> <<22377, 39040, 48906, 16389>>],
       [bits |-> <<22377, 35604, 48907, 16389>>]},
      {FALSE}, {HelloFromRust, HelloFromSwift, <<>>}>>
PrimitivesInstances ==
    {Primitives(HelloFromGo)}
    \cup UNION {{[Primitives(HelloFromGo) EXCEPT ![i] = x] : x \in OtherFields[i]} :
                   i \in 1..12}
HelperFiles ==
    {PrimitivesFile(v) : v \in PrimitivesInstances}
    \cup {SubSeq(PrimitivesFile(Primitives(HelloFromGo)), 1, n) : n \in 0..60}
    \cup Damaged(PrimitivesFile(Primitives(HelloFromGo)))
NoHelper == [op |-> "none", file |-> <<>>, stdout |-> <<>>, status |-> 0]

(***************************************************************************)
(* The state machine: a run drives one API.                                *)
(*   slice:   the caller holds a buffer and makes a call on it: an encode, *)
(*            which a decode of the same type at the same offset may       *)
(*            follow (the round trip of the unit tests), or a decode of    *)
(*            the bytes the buffer came with.                              *)
(*   stream:  the Encoder appends to its sink; a Decoder then reads the    *)
(*            sink, or reads an input from elsewhere.                      *)
(*   record:  the caller holds a record and encodes it, into a slice or a  *)
(*            Vec, then decodes what was written.                          *)
(*   fast:    one call of a fast-path array decoder on a slice.            *)
(*   message: the caller frames a record as a message, then hands the      *)
(*            message, or what a stream holds of it, to the dispatcher.    *)
(*   large:   one long string or byte array is encoded and decoded.        *)
(*   helper:  the cross-language helper writes its instance and decodes a  *)
(*            file, its own or one from elsewhere.                         *)
(***************************************************************************)
NoCall ==
    [op |-> "none", ty |-> "none", before |-> <<>>, offset |-> usize(0),
     value |-> Unit, res |-> Ok(Unit), alloc |-> 0, reads |-> {}, prev |-> <<>>]
NoRead == [op |-> "none", from |-> 0, res |-> Ok(Unit), alloc |-> 0]

Init ==
    /\ api \in {"slice", "stream", "record", "fast", "message", "large", "helper"}
    /\ CASE api = "record" -> \E name \in Schemas : rec \in RecordValues(name)
         [] api = "message" -> \E name \in {"Point", "Rectangle"} : rec \in RecordValues(name)
         [] OTHER -> rec = NoRecord
    /\ target_endian \in IF api = "fast" THEN {"little", "big"} ELSE {"little"}
    /\ fast \in IF api = "fast" THEN FastInputs ELSE {NoFast}
    /\ large \in IF api = "large" THEN LargeInputs ELSE {NoLarge}
    /\ overflow_checks \in IF api = "slice" THEN BOOLEAN ELSE {FALSE}
    /\ helper = NoHelper
    /\ buf \in IF api = "slice" THEN SliceInputs ELSE {<<>>}
    /\ call = NoCall
    /\ sink = <<>>
    /\ log = <<>>
    /\ reader = NoReader
    /\ rres = NoRead

Encoded(ty, offset, value, out) ==
    /\ api = "slice"
    /\ call.op = "none"
    /\ buf \in FillBufs
    /\ buf' = out.buf
    /\ call' = [op |-> "encode", ty |-> ty, before |-> buf, offset |-> offset,
                value |-> value, res |-> out.res, alloc |-> 0, reads |-> {},
                prev |-> <<>>]
    /\ UNCHANGED <<api, rec, target_endian, fast, large, helper, overflow_checks, sink, log, reader, rres>>

\* a decode of the bytes the buffer came with, at any offset, or the decode that
\* reads back what the encode before it wrote
CanDecode(ty, offset) ==
    /\ api = "slice"
    /\ IF call.op = "none" THEN buf \in DecodeInputs(ty)
       ELSE /\ call.op = "encode"
            /\ call.ty = ty
            /\ IsOk(call.res)
            /\ offset = call.offset

Decoded(op, ty, offset, out) ==
    /\ CanDecode(ty, offset)
    /\ buf' = buf
    /\ call' = [op |-> op, ty |-> ty, before |-> buf, offset |-> offset,
                value |-> Unit, res |-> out.res, alloc |-> out.alloc,
                reads |-> out.reads,
                prev |-> IF call.op = "none" THEN <<>> ELSE <<call>>]
    /\ UNCHANGED <<api, rec, target_endian, fast, large, helper, overflow_checks, sink, log, reader, rres>>

Written(ty, value, out) ==
    /\ api = "stream"
    /\ reader.pos < 0
    /\ Len(log) < MaxWrites
    /\ IsOk(out.res)
    /\ sink' = out.writer
    /\ log' = Append(log, [ty |-> ty, v |-> value])
    /\ UNCHANGED <<api, rec, target_endian, fast, large, helper, overflow_checks, buf, call, reader, rres>>

\* a read by the harness: when the data is what the Encoder wrote, the reads
\* follow the writes in type and order; on other input any read may come (of
\* the one-byte inputs, the one-byte reads)
CanRead(ty) ==
    /\ api = "stream"
    /\ reader.pos >= 0
    /\ IF log # <<>>
       THEN /\ reader.next <= Len(log)
            /\ log[reader.next].ty = ty
       ELSE reader.data \in ByteBufs => ty \in {"bool", "u8", "i8"}

Read(op, out) ==
    /\ reader' = [out.reader EXCEPT !.next = IF log # <<>> THEN @ + 1 ELSE @]
    /\ rres' = [op |-> op, from |-> reader.pos, res |-> out.res, alloc |-> out.alloc]
    /\ UNCHANGED <<api, rec, target_endian, fast, large, helper, overflow_checks, buf, call, sink, log>>

EncodeBool ==
    \E offset \in Offsets, value \in Values("bool") :
        Encoded("bool", offset, value, encode_bool(buf, offset, value))

EncodeU8 ==
    \E offset \in Offsets, value \in Values("u8") :
        Encoded("u8", offset, value, encode_u8(buf, offset, value))

EncodeU16 ==
    \E offset \in Offsets, value \in Values("u16") :
        Encoded("u16", offset, value, encode_u16(buf, offset, value))

EncodeU32 ==
    \E offset \in Offsets, value \in Values("u32") :
        Encoded("u32", offset, value, encode_u32(buf, offset, value))

EncodeU64 ==
    \E offset \in Offsets, value \in Values("u64") :
        Encoded("u64", offset, value, encode_u64(buf, offset, value))

EncodeI8 ==
    \E offset \in Offsets, value \in Values("i8") :
        Encoded("i8", offset, value, encode_i8(buf, offset, value))

EncodeI16 ==
    \E offset \in Offsets, value \in Values("i16") :
        Encoded("i16", offset, value, encode_i16(buf, offset, value))

EncodeI32 ==
    \E offset \in Offsets, value \in Values("i32") :
        Encoded("i32", offset, value, encode_i32(buf, offset, value))

EncodeI64 ==
    \E offset \in Offsets, value \in Values("i64") :
        Encoded("i64", offset, value, encode_i64(buf, offset, value))

EncodeF32 ==
    \E offset \in Offsets, value \in Values("f32") :
        Encoded("f32", offset, value, encode_f32(buf, offset, value))

EncodeF64 ==
    \E offset \in Offsets, value \in Values("f64") :
        Encoded("f64", offset, value, encode_f64(buf, offset, value))

EncodeString ==
    \E offset \in Offsets, value \in Values("string") :
        Encoded("string", offset, value, encode_string(buf, offset, value))

EncodeBytes ==
    \E offset \in Offsets, value \in Values("bytes") :
        Encoded("bytes", offset, value, encode_bytes(buf, offset, value))

DecodeBool ==
    \E offset \in Offsets : Decoded("decode", "bool", offset, decode_bool(buf, offset))

DecodeU8 ==
    \E offset \in Offsets : Decoded("decode", "u8", offset, decode_u8(buf, offset))

DecodeU16 ==
    \E offset \in Offsets : Decoded("decode", "u16", offset, decode_u16(buf, offset))

DecodeU32 ==
    \E offset \in Offsets : Decoded("decode", "u32", offset, decode_u32(buf, offset))

DecodeU64 ==
    \E offset \in Offsets : Decoded("decode", "u64", offset, decode_u64(buf, offset))

DecodeI8 ==
    \E offset \in Offsets : Decoded("decode", "i8", offset, decode_i8(buf, offset))

DecodeI16 ==
    \E offset \in Offsets : Decoded("decode", "i16", offset, decode_i16(buf, offset))

DecodeI32 ==
    \E offset \in Offsets : Decoded("decode", "i32", offset, decode_i32(buf, offset))

DecodeI64 ==
    \E offset \in Offsets : Decoded("decode", "i64", offset, decode_i64(buf, offset))

DecodeF32 ==
    \E offset \in Offsets : Decoded("decode", "f32", offset, decode_f32(buf, offset))

DecodeF64 ==
    \E offset \in Offsets : Decoded("decode", "f64", offset, decode_f64(buf, offset))

DecodeString ==
    \E offset \in Offsets : Decoded("decode", "string", offset, decode_string(buf, offset))

DecodeBytes ==
    \E offset \in Offsets : Decoded("decode", "bytes", offset, decode_bytes(buf, offset))

DecodeStringRustexp ==
    \E offset \in Offsets :
        Decoded("decode_rustexp", "string", offset, decode_string_rustexp(buf, offset))

WriteBool ==
    \E value \in Values("bool") : Written("bool", value, write_bool(sink, value))

WriteU8 ==
    \E value \in Values("u8") : Written("u8", value, write_u8(sink, value))

WriteU16 ==
    \E value \in Values("u16") : Written("u16", value, write_u16(sink, value))

WriteU32 ==
    \E value \in Values("u32") : Written("u32", value, write_u32(sink, value))

WriteU64 ==
    \E value \in Values("u64") : Written("u64", value, write_u64(sink, value))

WriteI8 ==
    \E value \in Values("i8") : Written("i8", value, write_i8(sink, value))

WriteI16 ==
    \E value \in Values("i16") : Written("i16", value, write_i16(sink, value))

WriteI32 ==
    \E value \in Values("i32") : Written("i32", value, write_i32(sink, value))

WriteI64 ==
    \E value \in Values("i64") : Written("i64", value, write_i64(sink, value))

WriteF32 ==
    \E value \in Values("f32") : Written("f32", value, write_f32(sink, value))

WriteF64 ==
    \E value \in Values("f64") : Written("f64", value, write_f64(sink, value))

WriteString ==
    \E value \in Values("string") : Written("string", value, write_string(sink, value))

WriteBytes ==
    \E value \in Values("bytes") : Written("bytes", value, write_bytes(sink, value))

\* Decoder::new(&buf[..]) over the Encoder's output
NewDecoderOverSink ==
    /\ api = "stream"
    /\ reader.pos < 0
    /\ log # <<>>
    /\ \E d \in BOOLEAN : reader' = [data |-> sink, pos |-> 0, drains |-> d, next |-> 1]
    /\ UNCHANGED <<api, rec, target_endian, fast, large, helper, overflow_checks, buf, call, sink, log, rres>>

\* Decoder::new over bytes that come from elsewhere
NewDecoderOverInput ==
    /\ api = "stream"
    /\ reader.pos < 0
    /\ log = <<>>
    /\ \E data \in StreamInputs, d \in BOOLEAN :
           reader' = [data |-> data, pos |-> 0, drains |-> d, next |-> 1]
    /\ UNCHANGED <<api, rec, target_endian, fast, large, helper, overflow_checks, buf, call, sink, log, rres>>

ReadBool == CanRead("bool") /\ Read("read_bool", read_bool(reader))

ReadU8 == CanRead("u8") /\ Read("read_u8", read_u8(reader))

ReadU16 == CanRead("u16") /\ Read("read_u16", read_u16(reader))

ReadU32 == CanRead("u32") /\ Read("read_u32", read_u32(reader))

ReadU64 == CanRead("u64") /\ Read("read_u64", read_u64(reader))

ReadI8 == CanRead("i8") /\ Read("read_i8", read_i8(reader))

ReadI16 == CanRead("i16") /\ Read("read_i16", read_i16(reader))

ReadI32 == CanRead("i32") /\ Read("read_i32", read_i32(reader))

ReadI64 == CanRead("i64") /\ Read("read_i64", read_i64(reader))

ReadF32 == CanRead("f32") /\ Read("read_f32", read_f32(reader))

ReadF64 == CanRead("f64") /\ Read("read_f64", read_f64(reader))

ReadString == CanRead("string") /\ Read("read_string", read_string(reader))

ReadBytes == CanRead("bytes") /\ Read("read_bytes", read_bytes(reader))

\* generated code, slice pair: r.encode_to_slice(&mut buf) into a zeroed buffer
\* of r.encoded_size() bytes, or one byte less or more
EncodeToSlice ==
    /\ api = "record"
    /\ call.op = "none"
    /\ log = <<>>
    /\ \E n \in {encoded_size(rec.T, rec.v) + d : d \in {-1, 0, 1}} :
          LET out == encode_to_slice(rec.T, rec.v, Zeroed(n))
          IN  /\ buf' = out.buf
              /\ call' = [op |-> "encode_to_slice", ty |-> "record",
                          before |-> Zeroed(n), offset |-> usize(0), value |-> rec.v,
                          res |-> out.res, alloc |-> 0, reads |-> {}, prev |-> <<>>]
    /\ UNCHANGED <<api, rec, target_endian, fast, large, helper, overflow_checks, sink, log, reader, rres>>

\* R::decode_from_slice(&buf) of what encode_to_slice wrote, as written or damaged
DecodeFromSlice ==
    /\ api = "record"
    /\ call.op = "encode_to_slice"
    /\ IsOk(call.res)
    /\ \E input \in {buf} \cup Damaged(buf) :
          call' = [op |-> "decode_from_slice", ty |-> "record", before |-> input,
                   offset |-> usize(0), value |-> Unit,
                   res |-> decode_from_slice(rec.T, input), alloc |-> 0,
                   reads |-> {}, prev |-> <<call>>]
    /\ UNCHANGED <<api, rec, target_endian, fast, large, helper, overflow_checks, buf, sink, log, reader, rres>>

\* generated code, streaming pair: r.encode(&mut buf) into a Vec
Encode ==
    /\ api = "record"
    /\ call.op = "none"
    /\ log = <<>>
    /\ LET out == encode(rec.T, rec.v, sink)
       IN  /\ IsOk(out.res)
           /\ sink' = out.writer
    /\ log' = <<[ty |-> "record", v |-> rec.v]>>
    /\ UNCHANGED <<api, rec, target_endian, fast, large, helper, overflow_checks, buf, call, reader, rres>>

\* R::decode(&mut &buf[..]) of what encode wrote
Decode ==
    /\ api = "record"
    /\ log # <<>>
    /\ rres.op = "none"
    /\ \E d \in BOOLEAN :
          LET out == decode(rec.T, [data |-> sink, pos |-> 0, drains |-> d, next |-> 1])
          IN  /\ reader' = out.reader
              /\ rres' = [op |-> "decode", from |-> 0, res |-> out.res, alloc |-> 0]
    /\ UNCHANGED <<api, rec, target_endian, fast, large, helper, overflow_checks, buf, call, sink, log>>

\* a call of a fast-path decoder on the slice; when it reads past the end of
\* the slice the outcome is any the undefined behaviour allows
FastCalled(op, ty, out) ==
    /\ api = "fast"
    /\ fast.op = "none"
    /\ fast.ty = ty
    /\ \E fault \in BOOLEAN :
          fast' = [fast EXCEPT
                      !.op = op,
                      !.res = IF fault /\ ~(out.reads \subseteq 0..(Len(fast.bytes) - 1))
                              THEN Segfault ELSE out.res,
                      !.reads = out.reads,
                      !.path = out.path]
    /\ UNCHANGED <<api, rec, target_endian, large, helper, overflow_checks, buf, call, sink, log, reader, rres>>

DecodeU32ArrayFast ==
    \E beyond \in BeyondBytes :
        FastCalled("decode_u32_array_fast", "u32",
                   decode_u32_array_fast(fast.bytes, fast.count, fast.addr, beyond))

DecodeF64ArrayFast ==
    \E beyond \in BeyondBytes :
        FastCalled("decode_f64_array_fast", "f64",
                   decode_f64_array_fast(fast.bytes, fast.count, fast.addr, beyond))

\* generated code, message mode: encode_point_message(&point) or
\* encode_rectangle_message(&rect)
EncodeMessage ==
    /\ api = "message"
    /\ call.op = "none"
    /\ buf' = encode_message(MessageType(rec.T), rec.v)
    /\ call' = [op |-> "encode_message", ty |-> "record", before |-> <<>>,
                offset |-> usize(0), value |-> rec.v, res |-> Ok(Unit), alloc |-> 0,
                reads |-> {}, prev |-> <<>>]
    /\ UNCHANGED <<api, rec, target_endian, fast, large, helper, overflow_checks, sink, log, reader, rres>>

\* decode_message(&encoded), on the message or on what a stream may hold of it
DecodeMessage ==
    /\ api = "message"
    /\ call.op = "encode_message"
    /\ \E input \in MessageInputs(buf) :
          call' = [op |-> "decode_message", ty |-> "record", before |-> input,
                   offset |-> usize(0), value |-> Unit, res |-> decode_message(input),
                   alloc |-> 0, reads |-> {}, prev |-> <<call>>]
    /\ UNCHANGED <<api, rec, target_endian, fast, large, helper, overflow_checks, buf, sink, log, reader, rres>>

\* large: the caller encodes one long string or byte array, into a slice or a
\* sink, then decodes what was written
EncodeLarge ==
    /\ api = "large"
    /\ large.kind = "slice"
    /\ large.op = "none"
    /\ LET out == IF large.ty = "string"
                  THEN encode_string_large(large.buf, large.offset, large.value)
                  ELSE encode_bytes_large(large.buf, large.offset, large.value)
       IN  large' = [large EXCEPT !.op = "encode", !.before = large.buf,
                                  !.buf = out.buf, !.res = out.res]
    /\ UNCHANGED <<api, rec, target_endian, fast, helper, overflow_checks, buf, call, sink, log, reader, rres>>

DecodeLarge ==
    /\ api = "large"
    /\ large.op = "encode"
    /\ IsOk(large.res)
    /\ LET out == IF large.ty = "string"
                  THEN decode_string_large(large.buf, large.offset)
                  ELSE decode_bytes_large(large.buf, large.offset)
       IN  large' = [large EXCEPT !.op = "decode", !.back = out.res]
    /\ UNCHANGED <<api, rec, target_endian, fast, helper, overflow_checks, buf, call, sink, log, reader, rres>>

WriteLarge ==
    /\ api = "large"
    /\ large.kind = "stream"
    /\ large.op = "none"
    /\ LET out == IF large.ty = "string"
                  THEN write_string_large(large.buf, large.value)
                  ELSE write_bytes_large(large.buf, large.value)
       IN  large' = [large EXCEPT !.op = "write", !.before = large.buf,
                                  !.buf = out.writer, !.res = out.res]
    /\ UNCHANGED <<api, rec, target_endian, fast, helper, overflow_checks, buf, call, sink, log, reader, rres>>

ReadLarge ==
    /\ api = "large"
    /\ large.op = "write"
    /\ LET rd == [data |-> large.buf, pos |-> large.offset]
           out == IF large.ty = "string" THEN read_string_large(rd)
                  ELSE read_bytes_large(rd)
       IN  large' = [large EXCEPT !.op = "read", !.back = out.res,
                                  !.pos = out.reader.pos]
    /\ UNCHANGED <<api, rec, target_endian, fast, helper, overflow_checks, buf, call, sink, log, reader, rres>>

\* helper: `rust_crossplatform_helper encode-primitives > file`, and
\* `rust_crossplatform_helper decode-primitives file` on that file or on a file
\* from elsewhere
EncodePrimitives ==
    /\ api = "helper"
    /\ helper.op = "none"
    /\ LET ran(out) == [op |-> "encode-primitives", file |-> out.stdout,
                         stdout |-> out.stdout, status |-> out.status]
       IN  helper' = ran(encode_primitives)
    /\ UNCHANGED <<api, rec, target_endian, fast, large, overflow_checks, buf, call, sink, log, reader, rres>>

DecodePrimitives ==
    /\ api = "helper"
    /\ helper.op \in {"none", "encode-primitives"}
    /\ \E file_data \in IF helper.op = "none" THEN HelperFiles ELSE {helper.file} :
          helper' = [helper EXCEPT !.op = "decode-primitives", !.file = file_data,
                                    !.status = decode_primitives(file_data)]
    /\ UNCHANGED <<api, rec, target_endian, fast, large, overflow_checks, buf, call, sink, log, reader, rres>>

Next ==
    \/ EncodeBool
    \/ EncodeU8
    \/ EncodeU16
    \/ EncodeU32
    \/ EncodeU64
    \/ EncodeI8
    \/ EncodeI16
    \/ EncodeI32
    \/ EncodeI64
    \/ EncodeF32
    \/ EncodeF64
    \/ EncodeString
    \/ EncodeBytes
    \/ DecodeBool
    \/ DecodeU8
    \/ DecodeU16
    \/ DecodeU32
    \/ DecodeU64
    \/ DecodeI8
    \/ DecodeI16
    \/ DecodeI32
    \/ DecodeI64
    \/ DecodeF32
    \/ DecodeF64
    \/ DecodeString
    \/ DecodeBytes
    \/ DecodeStringRustexp
    \/ WriteBool
    \/ WriteU8
    \/ WriteU16
    \/ WriteU32
    \/ WriteU64
    \/ WriteI8
    \/ WriteI16
    \/ WriteI32
    \/ WriteI64
    \/ WriteF32
    \/ WriteF64
    \/ WriteString
    \/ WriteBytes
    \/ NewDecoderOverSink
    \/ NewDecoderOverInput
    \/ ReadBool
    \/ ReadU8
    \/ ReadU16
    \/ ReadU32
    \/ ReadU64
    \/ ReadI8
    \/ ReadI16
    \/ ReadI32
    \/ ReadI64
    \/ ReadF32
    \/ ReadF64
    \/ ReadString
    \/ ReadBytes
    \/ EncodeToSlice
    \/ DecodeFromSlice
    \/ Encode
    \/ Decode
    \/ DecodeU32ArrayFast
    \/ DecodeF64ArrayFast
    \/ EncodeMessage
    \/ DecodeMessage
    \/ EncodeLarge
    \/ DecodeLarge
    \/ WriteLarge
    \/ ReadLarge
    \/ EncodePrimitives
    \/ DecodePrimitives

Spec == Init /\ [][Next]_vars

(***************************************************************************)
(* Properties.                                                             *)
(***************************************************************************)
SliceCall(op, tys) == api = "slice" /\ call.op = op /\ call.ty \in tys
IsDecode == api = "slice" /\ call.op \in {"decode", "decode_rustexp"}

\* offset + n <= the length of the buffer the call was made on, in the integers
Fits(n) == WFitsNat(call.offset) /\ WToNat(call.offset) + n <= Len(call.before)

\* (v >> 8 * i) mod 256 of an unsigned value: an integer (u16) or limbs
ShiftByte(ty, v, i) ==
    LET limb == IF ty = "u16" THEN v ELSE v[(i \div 2) + 1]
    IN  (limb \div (IF i % 2 = 0 THEN 1 ELSE 256)) % 256
ShiftBytes(ty, v) == [i \in 1..Width(ty) |-> ShiftByte(ty, v, i - 1)]

Last(q) == q[Len(q)]
Suffix(q, n) == SubSeq(q, Len(q) - n + 1, Len(q))
Unsigned == {"u16", "u32", "u64"}

\* C1: both APIs write u16, u32 and u64 little-endian: byte i of the encoding is
\* (v >> 8i) mod 256, and 0x12345678 as u32 is 78 56 34 12.
C1_LittleEndian ==
    /\ SliceCall("encode", Unsigned) /\ IsOk(call.res) =>
          /\ Bytes(buf, WToNat(call.offset), Width(call.ty))
               = ShiftBytes(call.ty, call.value)
          /\ call.ty = "u32" /\ call.value = u32(305419896) =>
                Bytes(buf, WToNat(call.offset), 4) = <<120, 86, 52, 18>>
    /\ api = "stream" /\ log # <<>> /\ Last(log).ty \in Unsigned =>
          /\ Suffix(sink, Width(Last(log).ty))
               = ShiftBytes(Last(log).ty, Last(log).v)
          /\ Last(log).ty = "u32" /\ Last(log).v = u32(305419896) =>
                Suffix(sink, 4) = <<120, 86, 52, 18>>

C1_Witness ==
    /\ SliceCall("encode", {"u32"}) /\ IsOk(call.res)
    /\ call.value = u32(305419896)
    /\ call.offset = usize(1)
    /\ call.before = [i \in 1..5 |-> 170]
    /\ buf = <<170, 120, 86, 52, 18>>

\* a decode that read back what the encode before it wrote
ReadBack(tys) == SliceCall("decode", tys) /\ Len(call.prev) = 1

\* C2: in the slice API a fixed-width value that encode_T wrote is what decode_T
\* at the same offset returns, for each of the eleven fixed-width types.
C2_ScalarRoundTrip ==
    /\ SliceCall("encode", FixedTypes) /\ Fits(Width(call.ty)) => IsOk(call.res)
    /\ ReadBack(FixedTypes) =>
          /\ IsOk(call.res)
          /\ call.res.val = call.prev[1].value

C2_Witness ==
    /\ ReadBack({"i16"})
    /\ call.prev[1].value = -32768
    /\ call.offset = usize(1)
    /\ IsOk(call.res) /\ call.res.val = -32768

\* the u32 length prefix n, as the four bytes the wire holds
PrefixBytes(n) == <<n % 256, (n \div 256) % 256, 0, 0>>

\* C3: encode_string of N bytes that fit returns Ok(4 + N), having written the u32
\* little-endian N at offset and the payload after it, and decode_string at
\* that offset returns the string and 4 + N.
C3_StringRoundTrip ==
    /\ SliceCall("encode", {"string"}) /\ Fits(4 + Len(call.value)) =>
          LET n == Len(call.value)
              at == WToNat(call.offset)
          IN  /\ IsOk(call.res) /\ call.res.val = 4 + n
              /\ Bytes(buf, at, 4) = PrefixBytes(n)
              /\ Bytes(buf, at + 4, n) = call.value
    /\ ReadBack({"string"}) =>
          /\ IsOk(call.res)
          /\ call.res.val.s = call.prev[1].value
          /\ call.res.val.consumed = call.prev[1].res.val
          /\ call.res.val.consumed = 4 + Len(call.prev[1].value)

C3_Witness ==
    /\ ReadBack({"string"})
    /\ call.offset = usize(2)
    /\ call.before = <<0, 0, 2, 0, 0, 0, 72, 105, 0>>
    /\ IsOk(call.res)
    /\ call.res.val = [s |-> <<72, 105>>, consumed |-> 6]

\* C4: a slice encode that returns Err has changed no byte of the buffer; in
\* particular encode_string and encode_bytes write no prefix when the prefix
\* fits and the payload does not.
C4_FailedEncodeWritesNothing ==
    api = "slice" /\ call.op = "encode" /\ IsErr(call.res) => buf = call.before

C4_Witness ==
    /\ SliceCall("encode", {"string"})
    /\ call.res.tag = "BufferTooSmall"
    /\ call.value = <<72, 105>>
    /\ call.offset = usize(1)
    /\ Len(call.before) = 6
    /\ buf = call.before

\* C5: a fixed-width slice encode or decode fails with BufferTooSmall{needed =
\* offset + width, available = buf.len()} when offset + width > buf.len(), and
\* otherwise succeeds (decode_bool apart, on a byte that is not 0 or 1).
C5_BoundsChecked ==
    api = "slice" /\ call.op \in {"encode", "decode"} /\ call.ty \in FixedTypes =>
        IF Fits(Width(call.ty))
        THEN \/ IsOk(call.res)
             \/ call.op = "decode" /\ call.ty = "bool" /\ call.res.tag = "InvalidBool"
        ELSE /\ call.res.tag = "BufferTooSmall"
             /\ ~AddOverflows(call.offset, Width(call.ty))
             /\ call.res.needed = Add(call.offset, Width(call.ty))
             /\ call.res.available = Len(call.before)

\* C6: decoding a bool is strict in both APIs: 0 is false, 1 is true, any other
\* byte v is InvalidBool(v); encode_bool and write_bool emit 0 or 1 only.
BoolOf(v, r) ==
    IF v = 0 THEN IsOk(r) /\ r.val = FALSE
    ELSE IF v = 1 THEN IsOk(r) /\ r.val = TRUE
    ELSE r.tag = "InvalidBool" /\ r.val = v

C6_StrictBool ==
    /\ SliceCall("decode", {"bool"}) /\ Fits(1) =>
          BoolOf(call.before[WToNat(call.offset) + 1], call.res)
    /\ api = "stream" /\ rres.op = "read_bool" /\ rres.from < Len(reader.data) =>
          BoolOf(reader.data[rres.from + 1], rres.res)
    /\ SliceCall("encode", {"bool"}) /\ IsOk(call.res) =>
          buf[WToNat(call.offset) + 1] = (IF call.value THEN 1 ELSE 0)
    /\ api = "stream" /\ log # <<>> /\ Last(log).ty = "bool" =>
          Last(sink) = (IF Last(log).v THEN 1 ELSE 0)

C6_Witness ==
    /\ api = "stream" /\ rres.op = "read_bool"
    /\ reader.data = <<255>>
    /\ rres.res.tag = "InvalidBool" /\ rres.res.val = 255

\* the u32 a length-prefixed decode finds at 0-based index at of data
PrefixAt(data, at) == W_from_le_bytes(Bytes(data, at, 4))
TooLarge(p) == WLt(u32(MAX_ARRAY_SIZE), p)

\* C7: when the four prefix bytes are there and their value exceeds
\* MAX_ARRAY_SIZE, decode_string, decode_bytes, read_string and read_bytes
\* return ArrayTooLarge{size = prefix, max = 10_000_000} whatever follows,
\* having read no payload byte and allocated nothing.
C7_DosGuard ==
    /\ IsDecode /\ call.ty \in PrefixedTypes /\ Fits(4)
         /\ TooLarge(PrefixAt(call.before, WToNat(call.offset))) =>
          /\ call.res.tag = "ArrayTooLarge"
          /\ call.res.size = PrefixAt(call.before, WToNat(call.offset))
          /\ call.res.max = u32(10000000)
          /\ call.alloc = 0
          /\ call.reads = Range(call.offset, 4)
    /\ api = "stream" /\ rres.op \in {"read_string", "read_bytes"}
         /\ rres.from + 4 <= Len(reader.data)
         /\ TooLarge(PrefixAt(reader.data, rres.from)) =>
          /\ rres.res.tag = "ArrayTooLarge"
          /\ rres.res.size = PrefixAt(reader.data, rres.from)
          /\ rres.res.max = u32(10000000)
          /\ rres.alloc = 0
          /\ reader.pos = rres.from + 4

C7_Witness ==
    /\ SliceCall("decode", {"string"})
    /\ call.before = <<255, 255, 255, 255>>
    /\ call.offset = usize(0)
    /\ call.res.tag = "ArrayTooLarge"
    /\ call.res.size = u32_MAX

\* C8: no slice encode or decode panics, whatever the buffer and whatever the
\* offset in 0..2^64-1.
C8_NoPanic == api = "slice" => ~IsPanic(call.res)

\* C9: a decode_string or decode_bytes that fails with ArrayTooLarge,
\* BufferTooSmall or InvalidUtf8 has made no owned copy of the payload.
C9_NoAllocationOnFailure ==
    IsDecode /\ call.ty \in PrefixedTypes
        /\ call.res.tag \in {"ArrayTooLarge", "BufferTooSmall", "InvalidUtf8"} =>
            call.alloc = 0

\* the same values through the slice API: encode_T at offset 0 of a buffer with
\* room, then at the offset advanced by the width or the returned count
Room == [i \in 1..(8 * MaxWrites) |-> 170]

RECURSIVE slice_encode_all(_, _, _)
slice_encode_all(items, b, at) ==
    IF items = <<>> THEN [ok |-> TRUE, buf |-> b, at |-> at]
    ELSE LET it == Head(items)
             out == encode_as(it.ty, b, usize(at), it.v)
         IN  IF ~IsOk(out.res) THEN [ok |-> FALSE, buf |-> out.buf, at |-> at]
             ELSE slice_encode_all(Tail(items), out.buf,
                     at + (IF it.ty \in FixedTypes THEN Width(it.ty) ELSE out.res.val))

\* C10: the sink after Encoder::write_* of a sequence of values holds the bytes
\* that wire_slice::encode_* of the same values, at offsets advanced by each
\* call's size, leave at the front of a buffer with room.
C10_SameBytes ==
    api = "stream" =>
        LET r == slice_encode_all(log, Room, 0)
        IN  /\ r.ok
            /\ r.at = Len(sink)
            /\ SubSeq(r.buf, 1, r.at) = sink

C10_Witness ==
    /\ api = "stream"
    /\ Len(log) = 2
    /\ log[1].ty = "string" /\ log[1].v = <<72, 105>>
    /\ log[2].ty = "f64"
    /\ Len(sink) = 14

\* the type a Decoder::read_* reads
TypeRead(op) ==
    CASE op = "read_bool" -> "bool"
      [] op = "read_u8" -> "u8"
      [] op = "read_u16" -> "u16"
      [] op = "read_u32" -> "u32"
      [] op = "read_u64" -> "u64"
      [] op = "read_i8" -> "i8"
      [] op = "read_i16" -> "i16"
      [] op = "read_i32" -> "i32"
      [] op = "read_i64" -> "i64"
      [] op = "read_f32" -> "f32"
      [] op = "read_f64" -> "f64"
      [] op = "read_string" -> "string"
      [] op = "read_bytes" -> "bytes"

\* C11: a Decoder reading a type from the start of b and the slice decoder of
\* that type at offset 0 of b succeed together with equal values, and when the
\* slice decoder fails with BufferTooSmall, InvalidUtf8, ArrayTooLarge or
\* InvalidBool the Decoder fails with the same kind.
C11_SameErrorKind ==
    api = "stream" /\ rres.op # "none" /\ rres.from = 0 =>
        LET ty == TypeRead(rres.op)
            s == decode_as(ty, reader.data, usize(0)).res
        IN  /\ IsOk(s) <=> IsOk(rres.res)
            /\ IsOk(s) =>
                  rres.res.val = (IF ty \in PrefixedTypes THEN s.val.s ELSE s.val)
            /\ IsErr(s) => rres.res.tag = s.tag

\* C12: decoding the bytes that encoding a record produced yields the record,
\* through encode_to_slice / decode_from_slice and through encode / decode,
\* for records with strings, arrays, nested records and optional fields.
C12_RecordRoundTrip ==
    /\ api = "record" /\ call.op = "decode_from_slice" /\ call.before = buf =>
          IsOk(call.res) /\ call.res.val = rec.v
    /\ api = "record" /\ rres.op = "decode" =>
          IsOk(rres.res) /\ rres.res.val = rec.v

C12_Witness ==
    /\ api = "record" /\ call.op = "decode_from_slice" /\ call.before = buf
    /\ rec.T = Document
    /\ rec.v = <<u32_MAX, Some(<<<<<<72, 105>>, <<195, 169>>>>>>)>>
    /\ Len(buf) = 21
    /\ IsOk(call.res) /\ call.res.val = rec.v

\* test_empty_arrays: every array of ArraysOfPrimitives is vec![]
FiveEmptyArrays == [T |-> ArraysOfPrimitives, v |-> <<<<>>, <<>>, <<>>, <<>>, <<>>>>]

(***************************************************************************)
(* C13  Size accuracy.  For every record value r, encode_to_slice into a   *)
(* buffer of exactly r.encoded_size() bytes succeeds and returns           *)
(* r.encoded_size(), and the streaming encode emits exactly that many      *)
(* bytes.  An array contributes 4 bytes plus its elements: the record of   *)
(* five empty arrays encodes to exactly 20 bytes, all zero.                *)
(***************************************************************************)
C13_SizeAccuracy ==
    api = "record" =>
        LET size == encoded_size(rec.T, rec.v)
        IN  /\ call.op = "encode_to_slice" /\ Len(call.before) = size =>
                  IsOk(call.res) /\ call.res.val = size
            /\ log # <<>> => Len(sink) = size
            /\ log # <<>> /\ rec.T = ArraysOfPrimitives /\ rec.v = FiveEmptyArrays.v =>
                  sink = Zeroed(20)

C13_Witness ==
    /\ api = "record"
    /\ rec.T = ArraysOfPrimitives /\ rec.v = FiveEmptyArrays.v
    /\ log # <<>>
    /\ encoded_size(rec.T, rec.v) = 20
    /\ sink = Zeroed(20)

\* the value and the number of bytes consumed of the successful slice decode
\* that `call` records
DecodedValue == IF call.ty \in PrefixedTypes THEN call.res.val.s ELSE call.res.val
Consumed == IF call.ty \in PrefixedTypes THEN call.res.val.consumed ELSE Width(call.ty)

\* the matching encoder, given the decoded value and a fresh buffer of the
\* consumed length
Reencoded == encode_as(call.ty, Zeroed(Consumed), usize(0), DecodedValue)

(***************************************************************************)
(* C14  Idempotence of re-encoding at the primitive level.  For every      *)
(* buffer and offset at which a slice decode (decode_bool, decode_uN/iN/fN,*)
(* decode_string, decode_bytes) succeeds consuming k bytes, the matching   *)
(* encoder given the decoded value writes exactly the same k bytes: an     *)
(* accepted encoding is canonical.                                         *)
(***************************************************************************)
C14_Reencode ==
    IsDecode /\ IsOk(call.res) =>
        /\ IsOk(Reencoded.res)
        /\ Reencoded.buf = Bytes(call.before, WToNat(call.offset), Consumed)

C14_Witness ==
    /\ SliceCall("decode", {"string"})
    /\ call.prev = <<>>
    /\ IsOk(call.res)
    /\ call.offset = usize(1)
    /\ Consumed = 6
    /\ DecodedValue = <<195, 169>>
    /\ Reencoded.buf = <<2, 0, 0, 0, 195, 169>>
    /\ Reencoded.buf = Bytes(call.before, 1, 6)

\* Request and Document: a u32 id, then the optional field, whose presence
\* byte is therefore the byte at index 4
HasOptional == api = "record" /\ rec.T \in {Request, Document}
Optional == rec.v[2]

\* the first n bytes of b are the id, one presence byte, and the payload iff
\* the field is present
OptionalEncoding(b, n) ==
    /\ n >= 5
    /\ IF Optional.some
       THEN LET payload == encode_to_slice(rec.T.fields[2].of, Optional.v, Zeroed(n - 5))
            IN  /\ b[5] = 1
                /\ n > 5
                /\ IsOk(payload.res) /\ payload.res.val = n - 5
                /\ Bytes(b, 5, n - 5) = payload.buf
       ELSE b[5] = 0 /\ n = 5

\* the values of the schema of rec whose optional field is present
SomeValues ==
    {o \in UNION {RecordValues(name) : name \in {"Request", "Document"}} :
        o.T = rec.T /\ o.v[2].some}

FastDone == api = "fast" /\ fast.op # "none"
InBounds == fast.reads \subseteq 0..(Len(fast.bytes) - 1)
LittleEndianElement(i) ==
    LET w == Width(fast.ty)
        n == W_from_le_bytes(Bytes(fast.bytes, w * (i - 1), w))
    IN  IF fast.ty = "f64" THEN f64_from_bits(n) ELSE n

\* the reference element-wise decoder on the slice
Reference ==
    IF fast.ty = "u32" THEN decode_chunks_exact(fast.bytes)
    ELSE [i \in 1..(Len(fast.bytes) \div 8) |-> LittleEndianElement(i)]

(***************************************************************************)
(* C16  Fast-path array decoding is strategy-independent.  For every byte  *)
(* slice of exactly count * width bytes (width 4 for                       *)
(* decode_u32_array_fast, 8 for decode_f64_array_fast), every alignment of *)
(* its start and every count, the result equals the reference element-wise *)
(* decoder, which reads element i as the little-endian value of bytes      *)
(* [i * width, (i + 1) * width), whichever strategy is taken.              *)
(***************************************************************************)
C16_StrategyIndependent ==
    FastDone /\ Len(fast.bytes) = fast.count * Width(fast.ty) =>
        /\ IsOk(fast.res)
        /\ fast.res.val = Reference

(***************************************************************************)
(* C17  On a big-endian host the fast-path array decoders still return the *)
(* little-endian interpretation of the input: every strategy byte-swaps,   *)
(* and the zero-copy reinterpretation of an aligned slice is used only     *)
(* when the host is little-endian.                                         *)
(***************************************************************************)
C17_BigEndianHost ==
    FastDone /\ target_endian = "big" /\ InBounds =>
        /\ fast.path # "cast"
        /\ IsOk(fast.res)
        /\ \A i \in 1..Len(fast.res.val) : fast.res.val[i] = LittleEndianElement(i)

(***************************************************************************)
(* C18  The fast-path array decoders never read outside their input: for   *)
(* every byte slice and every count they read only indices below           *)
(* bytes.len(), the raw reads of the bulk and element-wise strategies      *)
(* being guarded by a check at entry that count * width <= bytes.len().    *)
(***************************************************************************)
C18_ReadsInBounds ==
    FastDone =>
        /\ InBounds
        /\ fast.res.tag # "Segfault"
        /\ fast.count * Width(fast.ty) > Len(fast.bytes) => IsErr(fast.res)

\* a message-mode call has been made
MessageCall(op) == api = "message" /\ call.op = op
Envelope == MessageTypes[MessageType(rec.T)]

(***************************************************************************)
(* C19  Message-mode framing round-trips through the dispatcher.           *)
(* encode_<record>_message(r) produces the u32 little-endian               *)
(* payload_length at offset 0, equal to the size of the encoded record,    *)
(* the u32 little-endian type_tag at offset 4, then exactly payload_length *)
(* payload bytes; decode_message on those bytes, with or without surplus   *)
(* bytes after offset 8 + payload_length, returns the variant whose tag    *)
(* matches, holding a value equal to r.                                    *)
(***************************************************************************)
C19_FramingRoundTrip ==
    /\ MessageCall("encode_message") =>
          LET body == encode(rec.T, rec.v, <<>>).writer
          IN  /\ Len(buf) = 8 + Len(body)
              /\ Bytes(buf, 0, 4) = PrefixBytes(Len(body))
              /\ Bytes(buf, 4, 4) = PrefixBytes(Envelope.type_tag)
              /\ Bytes(buf, 8, Len(body)) = body
    /\ MessageCall("decode_message") /\ Len(call.before) >= Len(buf)
       /\ SubSeq(call.before, 1, Len(buf)) = buf =>
          /\ IsOk(call.res)
          /\ call.res.val.variant = Envelope.variant
          /\ call.res.val.value = rec.v

C19_Witness ==
    /\ MessageCall("decode_message")
    /\ rec.T = Rectangle
    /\ Len(buf) = 40
    /\ Len(call.before) = 49
    /\ SubSeq(call.before, 1, 40) = buf
    /\ Bytes(buf, 0, 8) = <<32, 0, 0, 0, 2, 0, 0, 0>>
    /\ IsOk(call.res)
    /\ call.res.val.variant = "Rectangle"
    /\ call.res.val.value = rec.v

\* the envelope of the bytes decode_message was given: too short for the
\* header, a payload_length beyond the bytes that follow the header, a
\* type_tag of no record
TooShort == Len(call.before) < 8
PayloadTooLong ==
    /\ ~TooShort
    /\ \/ call.before[3] # 0
       \/ call.before[4] # 0
       \/ call.before[1] + 256 * call.before[2] > Len(call.before) - 8
UnknownTag ==
    /\ ~TooShort
    /\ \A i \in 1..Len(MessageTypes) :
          Bytes(call.before, 4, 4) # PrefixBytes(MessageTypes[i].type_tag)

(***************************************************************************)
(* C20  Message-mode envelope errors are values.  decode_message on a      *)
(* buffer whose type_tag is not one of the known record tags returns       *)
(* UnknownMessageType(tag), and on a buffer whose payload_length exceeds   *)
(* buf.len() - 8, or that is shorter than the 8-byte header, returns       *)
(* BufferTooSmall; neither case yields a record or a panic.                *)
(***************************************************************************)
C20_EnvelopeErrors ==
    MessageCall("decode_message") =>
        /\ ~IsPanic(call.res)
        /\ TooShort \/ PayloadTooLong \/ UnknownTag => ~IsOk(call.res)
        /\ TooShort => call.res.tag = "BufferTooSmall"
        /\ PayloadTooLong /\ ~UnknownTag => call.res.tag = "BufferTooSmall"
        /\ UnknownTag /\ ~PayloadTooLong =>
              /\ call.res.tag = "UnknownMessageType"
              /\ call.res.type_tag = W_from_le_bytes(Bytes(call.before, 4, 4))
        /\ UnknownTag /\ PayloadTooLong =>
              call.res.tag \in {"UnknownMessageType", "BufferTooSmall"}

C20_Witness ==
    /\ MessageCall("decode_message")
    /\ rec.T = Point
    /\ Len(call.before) = 24
    /\ Bytes(call.before, 0, 8) = <<16, 0, 0, 0, 3, 0, 0, 0>>
    /\ UnknownTag /\ ~PayloadTooLong
    /\ call.res = UnknownMessageType(u32(3))

\* the bytes Encoder::write_* emits for one logged value, and for a sequence of
\* them one after the other
EncodingOf(item) == write_as(item.ty, <<>>, item.v).writer
RECURSIVE Concatenation(_)
Concatenation(items) ==
    IF Len(items) = 0 THEN <<>>
    ELSE EncodingOf(Head(items)) \o Concatenation(Tail(items))

\* the Decoder reads what the Encoder wrote, and has made `ReadsDone` reads
ReadingSink == api = "stream" /\ log # <<>> /\ reader.pos >= 0 /\ rres.op # "none"
ReadsDone == reader.next - 1

(***************************************************************************)
(* C21  After any sequence of successful Encoder::write_* calls the sink   *)
(* holds exactly the concatenation of the individual encodings in call     *)
(* order, with no padding or separator bytes; a Decoder issuing the        *)
(* matching read_* calls in the same order over those bytes returns the    *)
(* same values in the same order and has then consumed every byte.         *)
(***************************************************************************)
C21_Concatenation ==
    /\ api = "stream" => sink = Concatenation(log)
    /\ ReadingSink =>
          /\ reader.data = sink
          /\ IsOk(rres.res)
          /\ rres.res.val = log[ReadsDone].v
          /\ rres.from = Len(Concatenation(SubSeq(log, 1, ReadsDone - 1)))
          /\ reader.pos = rres.from + Len(EncodingOf(log[ReadsDone]))
          /\ ReadsDone = Len(log) => reader.pos = Len(sink)

C21_Witness ==
    /\ ReadingSink
    /\ Len(log) = 2 /\ ReadsDone = 2
    /\ log[1].ty = "string" /\ log[1].v = <<72, 105>>
    /\ log[2].ty = "u16" /\ log[2].v = 43981
    /\ sink = <<2, 0, 0, 0, 72, 105, 205, 171>>
    /\ rres.from = 6
    /\ rres.res.val = 43981
    /\ reader.pos = 8

\* the first check of decode_string / decode_bytes that the call `call` records
\* fails, in the order of the claim: the prefix, the limit, the payload range,
\* the payload text
FirstFailure ==
    LET n == Len(call.before)
    IN  IF ~WFitsNat(call.offset) \/ WToNat(call.offset) + 4 > n THEN "prefix"
        ELSE LET at == WToNat(call.offset)
                 len == PrefixAt(call.before, at)
             IN  IF TooLarge(len) THEN "limit"
                 ELSE IF at + 4 + WToNat(len) > n THEN "range"
                 ELSE IF call.ty = "string"
                         /\ ~utf8_valid(Bytes(call.before, at + 4, WToNat(len)))
                      THEN "text"
                 ELSE "none"

(***************************************************************************)
(* C22  Fail-fast error precedence in slice decode_string.  The checks are *)
(* applied in the order (1) the 4-byte prefix is readable, else            *)
(* BufferTooSmall{needed = offset + 4}; (2) prefix <= MAX_ARRAY_SIZE, else *)
(* ArrayTooLarge; (3) offset + 4 + len <= buf.len(), else                  *)
(* BufferTooSmall{needed = offset + 4 + len}; (4) the payload is valid     *)
(* UTF-8, else InvalidUtf8.  The error returned is that of the first       *)
(* failing check; decode_bytes applies (1)-(3) and never fails on payload  *)
(* content.                                                                *)
(***************************************************************************)
C22_ErrorPrecedence ==
    SliceCall("decode", PrefixedTypes) =>
        CASE FirstFailure = "prefix" ->
                /\ call.res.tag = "BufferTooSmall"
                /\ ~AddOverflows(call.offset, 4)
                /\ call.res.needed = Add(call.offset, 4)
                /\ call.res.available = Len(call.before)
          [] FirstFailure = "limit" ->
                /\ call.res.tag = "ArrayTooLarge"
                /\ call.res.size = PrefixAt(call.before, WToNat(call.offset))
          [] FirstFailure = "range" ->
                /\ call.res.tag = "BufferTooSmall"
                /\ call.res.needed =
                      usize(WToNat(call.offset) + 4
                            + WToNat(PrefixAt(call.before, WToNat(call.offset))))
                /\ call.res.available = Len(call.before)
          [] FirstFailure = "text" -> call.res.tag = "InvalidUtf8"
          [] FirstFailure = "none" -> IsOk(call.res)

\* the long payload of N bytes, the run after the encode or write of it, and
\* what the bytes written hold: the u32 at the offset and the N bytes after it
LargeCall(ops) == api = "large" /\ large.op \in ops
LargeN == RLen(large.value)
OverLimit == WLt(usize(MAX_ARRAY_SIZE), LargeN)
LargePrefix == W_from_le_bytes(RBytes(RTake(RDrop(large.buf, large.offset), usize(4))))
LargePayload == RTake(RDrop(large.buf, WAdd(large.offset, usize(4))), LargeN)

(***************************************************************************)
(* C23  The maximum length is enforced on decode only.  encode_string,     *)
(* encode_bytes, write_string and write_bytes succeed for a payload of     *)
(* N > MAX_ARRAY_SIZE bytes whenever the buffer or sink has room, writing  *)
(* the prefix N and the whole payload, and decoding those bytes returns    *)
(* ArrayTooLarge: such a value is encodable but not decodable.             *)
(***************************************************************************)
C23_EncodableNotDecodable ==
    /\ LargeCall({"encode", "write", "decode", "read"}) /\ OverLimit =>
          /\ IsOk(large.res)
          /\ large.kind = "slice" => large.res.val = WAdd(usize(4), LargeN)
          /\ WResize(LargePrefix, 4) = LargeN
          /\ LargePayload = large.value
    /\ LargeCall({"decode", "read"}) /\ OverLimit => large.back.tag = "ArrayTooLarge"

(***************************************************************************)
(* C28  The length prefix written by encode_string, encode_bytes,          *)
(* write_string and write_bytes always equals the number of payload bytes  *)
(* written after it: for every payload of N bytes, including N >= 2^32     *)
(* where the conversion of N to u32 would wrap to N mod 2^32, the u32      *)
(* prefix read back equals N.                                              *)
(***************************************************************************)
C28_PrefixIsLength ==
    /\ SliceCall("encode", PrefixedTypes) /\ IsOk(call.res) =>
          PrefixAt(buf, WToNat(call.offset)) = u32(Len(call.value))
    /\ api = "stream" /\ log # <<>> /\ Last(log).ty \in PrefixedTypes =>
          PrefixAt(sink, Len(sink) - Len(Last(log).v) - 4) = u32(Len(Last(log).v))
    /\ LargeCall({"encode", "write"}) /\ IsOk(large.res) =>
          /\ LargePayload = large.value
          /\ WResize(LargePrefix, 4) = LargeN

\* the number of bytes the successful slice encode that `call` records wrote
BytesWritten ==
    IF call.ty \in PrefixedTypes THEN 4 + Len(call.value) ELSE Width(call.ty)

(***************************************************************************)
(* C24  A successful slice encode writes only its own range.  For every    *)
(* encoder, buffer and offset, after an Ok result every byte of buf at an  *)
(* index below offset or at or above offset + bytes_written (width(T) for  *)
(* scalars, 4 + N for strings and byte arrays) is unchanged, and so is the *)
(* length of buf.                                                          *)
(***************************************************************************)
C24_WritesOnlyItsRange ==
    /\ SliceCall("encode", FixedTypes \cup PrefixedTypes) /\ IsOk(call.res) =>
          /\ Len(buf) = Len(call.before)
          /\ \A i \in 1..Len(buf) :
                i <= WToNat(call.offset) \/ i > WToNat(call.offset) + BytesWritten =>
                    buf[i] = call.before[i]
    /\ LargeCall({"encode"}) /\ IsOk(large.res) =>
          /\ RLen(large.buf) = RLen(large.before)
          /\ RTake(large.buf, large.offset) = RTake(large.before, large.offset)
          /\ RDrop(large.buf, WAdd(large.offset, large.res.val))
                = RDrop(large.before, WAdd(large.offset, large.res.val))

C24_Witness ==
    /\ SliceCall("encode", {"u16"})
    /\ IsOk(call.res)
    /\ call.offset = usize(1)
    /\ call.value = 43981
    /\ call.before = <<170, 170, 170, 170>>
    /\ buf = <<170, 205, 171, 170>>

\* the element count from which the bulk copy is taken, and whether the slice
\* starts at a multiple of the element width
Threshold == IF fast.ty = "u32" THEN MEMCPY_THRESHOLD_u32 ELSE MEMCPY_THRESHOLD_f64
Aligned == fast.addr % Width(fast.ty) = 0

(***************************************************************************)
(* C25  Fast-path strategy selection.  For an input slice that is not      *)
(* naturally aligned for T, decode_u32_array_fast takes the bulk-copy path *)
(* exactly when count >= 64 and decode_f64_array_fast exactly when         *)
(* count >= 32, and the element-wise path otherwise; for an aligned slice  *)
(* whose length is a multiple of the element width the zero-copy cast path *)
(* is taken for every count.                                               *)
(***************************************************************************)
C25_StrategySelection ==
    FastDone =>
        /\ ~Aligned /\ fast.count >= Threshold => fast.path = "memcpy"
        /\ ~Aligned /\ fast.count < Threshold => fast.path = "loop"
        /\ Aligned /\ Len(fast.bytes) % Width(fast.ty) = 0 => fast.path = "cast"

C25_Witness ==
    /\ FastDone
    /\ fast.op = "decode_u32_array_fast"
    /\ fast.addr = 1
    /\ fast.count = 64
    /\ Len(fast.bytes) = 256
    /\ fast.path = "memcpy"

\* the same call on an equal slice placed at the address addr, the bytes
\* after the slice being `beyond`
Placed(addr, beyond) ==
    IF fast.ty = "u32"
    THEN decode_u32_array_fast(fast.bytes, fast.count, addr, beyond).res
    ELSE decode_f64_array_fast(fast.bytes, fast.count, addr, beyond).res

(***************************************************************************)
(* C30  The fast-path decoders are deterministic with respect to           *)
(* placement.  For two calls of decode_u32_array_fast (or                  *)
(* decode_f64_array_fast) with byte-for-byte equal input slices and the    *)
(* same count but different start-address alignment, the returned vectors  *)
(* are equal and have exactly count elements, for every count and every    *)
(* slice length, not only when length = count * width.                     *)
(***************************************************************************)
C30_PlacementIndependent ==
    FastDone /\ IsOk(fast.res) =>
        /\ Len(fast.res.val) = fast.count
        /\ \A addr \in 0..7, beyond \in BeyondBytes : Placed(addr, beyond) = fast.res

\* the file decode-primitives was given, decoded, and the instance that
\* encode-primitives writes
HelperDecoded == decode_from_slice(AllPrimitives, helper.file)
DecodedPrimitives == api = "helper" /\ helper.op = "decode-primitives"

(***************************************************************************)
(* C26  The cross-language helper validates decoded data against the       *)
(* canonical instance.  decode-primitives exits with status 0 on the bytes *)
(* that the same helper's encode-primitives writes to stdout, and exits    *)
(* non-zero on any file whose decoded fields differ from the canonical     *)
(* field values or that fails to decode.                                   *)
(***************************************************************************)
C26_HelperValidates ==
    DecodedPrimitives =>
        /\ helper.file = encode_primitives.stdout => helper.status = 0
        /\ ~IsOk(HelperDecoded) => helper.status # 0
        /\ IsOk(HelperDecoded) /\ HelperDecoded.val # Primitives(HelloFromRust) =>
              helper.status # 0

(***************************************************************************)
(* C27  The length limit is inclusive.  In decode_string, decode_bytes,    *)
(* read_string and read_bytes a length prefix exactly equal to             *)
(* MAX_ARRAY_SIZE (10_000_000) is not rejected as ArrayTooLarge: it        *)
(* proceeds to the bounds check or the payload read.  10_000_001 and every *)
(* larger value up to 0xFFFFFFFF is rejected.  Both APIs and all copies of *)
(* wire_slice use the same limit.                                          *)
(***************************************************************************)
C27_InclusiveLimit ==
    /\ MAX_ARRAY_SIZE = 10000000
    /\ MAX_ARRAY_SIZE_wire = 10000000
    /\ MAX_ARRAY_SIZE_rustexp = 10000000
    /\ MAX_ARRAY_SIZE_audiounit = 10000000
    /\ IsDecode /\ call.ty \in PrefixedTypes /\ Fits(4) =>
          /\ call.res.tag = "ArrayTooLarge"
                <=> WLt(u32(10000000), PrefixAt(call.before, WToNat(call.offset)))
          /\ PrefixAt(call.before, WToNat(call.offset)) = u32(10000000) =>
                /\ call.res.tag = "BufferTooSmall"
                /\ call.res.needed = usize(WToNat(call.offset) + 4 + 10000000)
    /\ api = "stream" /\ rres.op \in {"read_string", "read_bytes"}
         /\ rres.from + 4 <= Len(reader.data) =>
          /\ rres.res.tag = "ArrayTooLarge"
                <=> WLt(u32(10000000), PrefixAt(reader.data, rres.from))
          /\ PrefixAt(reader.data, rres.from) = u32(10000000) =>
                /\ rres.res = Io("UnexpectedEof")
                /\ rres.alloc = 10000000
    /\ LargeCall({"decode", "read"}) =>
          /\ LargeN = usize(10000000) =>
                /\ IsOk(large.back)
                /\ large.back.val = IF large.kind = "slice"
                                    THEN [s |-> large.value,
                                          consumed |-> usize(10000004)]
                                    ELSE large.value
          /\ WLt(usize(10000000), LargeN) /\ WLe(LargeN, <<65535, 65535, 0, 0>>) =>
                large.back.tag = "ArrayTooLarge"

C27_Witness ==
    /\ SliceCall("decode", {"bytes"})
    /\ call.before = <<170, 128, 150, 152, 0, 72, 105>>
    /\ call.offset = usize(1)
    /\ call.res.tag = "BufferTooSmall"
    /\ call.res.needed = usize(10000005)
    /\ call.res.available = 7

(***************************************************************************)
(* The streaming decoder after a rejected read.                            *)
(***************************************************************************)
\* the bytes the last read consumed when it rejected what it read: 4 for an
\* ArrayTooLarge of read_string / read_bytes, 1 for an InvalidBool of
\* read_bool, and -1 when the last read was no such rejection
Rejected ==
    CASE rres.op \in {"read_string", "read_bytes"} /\ rres.res.tag = "ArrayTooLarge" -> 4
      [] rres.op = "read_bool" /\ rres.res.tag = "InvalidBool" -> 1
      [] OTHER -> -1

\* what a read of type ty returns on the same bytes from position pos
ReadFrom(ty, pos) == read_as(ty, [reader EXCEPT !.pos = pos]).res

\* C29: a read_string or read_bytes that returns ArrayTooLarge leaves the
\* reader exactly 4 bytes after where the read began, a read_bool that returns
\* InvalidBool leaves it exactly 1 byte after; the read that follows begins at
\* that position and returns what that read returns on the same bytes from
\* there.
C29_PositionAfterRejection ==
    [][/\ api' = "stream" /\ Rejected' >= 0 =>
            /\ reader'.pos = rres'.from + Rejected'
            /\ reader'.data = reader.data
       /\ api = "stream" /\ Rejected >= 0 =>
            /\ rres'.from = rres.from + Rejected
            /\ \A ty \in FixedTypes \cup PrefixedTypes :
                  rres'.op = "read_" \o ty =>
                      rres'.res = ReadFrom(ty, rres.from + Rejected)]_vars

\* a read_string rejected the prefix 0xFFFFFFFF with payload bytes behind it
\* and left the reader on the first of them
C29_Witness ==
    /\ api = "stream"
    /\ rres.op = "read_string"
    /\ rres.res.tag = "ArrayTooLarge"
    /\ rres.from = 0
    /\ reader.pos = 4
    /\ Len(reader.data) > 4

====
